---------------------------- MODULE Spec2Model ----------------------------
(***************************************************************************)
(* A model of the poker trainer's core: the hand evaluator of              *)
(* poker-engine.js and the strategy synthesizer and action grader of       *)
(* gto-solver-advanced.js.                                                 *)
(*                                                                         *)
(* Numbers.  The code computes in floating point; the model computes in    *)
(* exact arithmetic.  A frequency is a numerator over the denominator of   *)
(* its table (a raw table is written in hundredths, a normalized one has   *)
(* the raw total as denominator); wetness is in hundredths, equity in      *)
(* ten-thousandths, an EV loss is a numerator over 10000 * den.            *)
(*                                                                         *)
(* Keys.  The action keys the source writes as raise_0.33, bet_1.0, ...    *)
(* are read as the strings "raise_0.33", "bet_1.0", ..., the labels        *)
(* convertButtonAction builds.                                             *)
(***************************************************************************)
EXTENDS Integers, Sequences, FiniteSets, TLC

VARIABLES
    pc,               \* position of the caller in its call sequence
    gtoStrategy,      \* the strategy table handed to evaluateAction
    playerAction,     \* the submitted action label
    grading,          \* the object evaluateAction returned
    cards,            \* the array handed to evaluateHand
    evaluation,       \* what evaluateHand returned for cards
    other,            \* a second array handed to evaluateHand
    otherEvaluation,  \* what evaluateHand returned for other
    reorders,         \* how often the caller has reordered cards
    outcome,          \* the counter a showdown incremented
    currentHand,      \* the gameState handed to getGTOStrategy
    currentGTOStrategy, \* what getGTOStrategy returned for currentHand
    random,           \* the value Math.random() returned to the solver
    solver,           \* the solver's fields engine and ranges
    repeatGTOStrategy, \* what a second getGTOStrategy(currentHand) returned
    analyzerInput,    \* the hole cards and board handed to an analyzer
    analyzerResult,   \* what the analyzer returned for analyzerInput
    session,          \* PokerTrainer's session object
    timers,           \* the dealNewHand timers that are pending
    screen            \* the screen showScreen made active

vars == <<pc, gtoStrategy, playerAction, grading,
          cards, evaluation, other, otherEvaluation, reorders, outcome,
          currentHand, currentGTOStrategy, random, solver, repeatGTOStrategy,
          analyzerInput, analyzerResult, session, timers, screen>>

graderVars == <<gtoStrategy, playerAction, grading>>
handVars   == <<cards, evaluation, other, otherEvaluation, reorders, outcome>>
solveVars  == <<currentHand, currentGTOStrategy, random, solver, repeatGTOStrategy>>
appVars    == <<analyzerInput, analyzerResult, session, timers, screen>>

Nil == "nil"

\* ------------------------------------------------------------------ bounds

\* The largest number of keys of a strategy table drawn as grader input.
MaxKeys == 2

\* The largest number of transpositions applied to an input array.
MaxReorders == 2

\* ------------------------------------------------------- strategy tables

\* One key of a strategy table with its weight (a numerator over table.den).
Entry(a, f) == [a |-> a, f |-> f]

\* A strategy table: its keys in enumeration order, and the denominator.
Table(entries, den) == [entries |-> entries, den |-> den]

RECURSIVE SumFreq(_)
SumFreq(entries) ==
    IF entries = <<>> THEN 0 ELSE Head(entries).f + SumFreq(Tail(entries))

HasKey(strategy, a) == \E i \in 1..Len(strategy.entries) : strategy.entries[i].a = a

\* strategy[a] || 0
FreqOf(strategy, a) ==
    IF HasKey(strategy, a)
    THEN strategy.entries[CHOOSE i \in 1..Len(strategy.entries) :
                              strategy.entries[i].a = a].f
    ELSE 0

\* ------------------------------------------------------------ the grader

\* Array.prototype.sort with the comparator (a, b) => b[1] - a[1]: a stable
\* sort, descending by weight.  InsertDescLast is the unstable variant that
\* puts an entry before the entries of equal weight.
InsertDescLast(e, sorted) ==
    LET RECURSIVE Ins(_)
        Ins(s) == IF s = <<>> THEN <<e>>
                  ELSE IF e.f >= Head(s).f THEN <<e>> \o s
                  ELSE <<Head(s)>> \o Ins(Tail(s))
    IN Ins(sorted)

InsertDesc(e, sorted) ==
    LET RECURSIVE Ins(_)
        Ins(s) == IF s = <<>> THEN <<e>>
                  ELSE IF e.f > Head(s).f THEN <<e>> \o s
                  ELSE <<Head(s)>> \o Ins(Tail(s))
    IN Ins(sorted)

RECURSIVE SortByFreqDesc(_)
SortByFreqDesc(entries) ==
    IF entries = <<>> THEN <<>>
    ELSE InsertDesc(entries[Len(entries)],
                    SortByFreqDesc(SubSeq(entries, 1, Len(entries) - 1)))

Max2(a, b) == IF a >= b THEN a ELSE b

\* Math.min(a, b) without the bound a.
SecondOf(a, b) == b

Min2(a, b) == IF a <= b THEN a ELSE b

\* The category ladder and EV loss of evaluateAction.  p and o are the
\* numerators of playerFreq and optimalFreq over den; the EV loss is a
\* numerator over 10000 * den.
GradeSwapped(p, o, den) ==
    IF 100 * p >= 100 * o - 3 * den \/ 100 * p >= 25 * den
    THEN [category |-> "best", evLoss |-> Max2(0, (o - p) * 500)]
    ELSE IF 100 * p >= 15 * den
    THEN [category |-> "correct", evLoss |-> (p - o) * 1500]
    ELSE IF 100 * p >= 8 * den
    THEN [category |-> "inaccuracy", evLoss |-> 3000 * den + (o - p) * 2000]
    ELSE IF 100 * p >= 3 * den
    THEN [category |-> "wrong", evLoss |-> 6000 * den + (o - p) * 3000]
    ELSE [category |-> "blunder", evLoss |-> 12000 * den + (o - p) * 4000]

GradeStrict(p, o, den) ==
    IF 100 * p >= 100 * o - 3 * den \/ 100 * p > 25 * den
    THEN [category |-> "best", evLoss |-> Max2(0, (o - p) * 500)]
    ELSE IF 100 * p >= 15 * den
    THEN [category |-> "correct", evLoss |-> (o - p) * 1500]
    ELSE IF 100 * p >= 8 * den
    THEN [category |-> "inaccuracy", evLoss |-> 3000 * den + (o - p) * 2000]
    ELSE IF 100 * p >= 3 * den
    THEN [category |-> "wrong", evLoss |-> 6000 * den + (o - p) * 3000]
    ELSE [category |-> "blunder", evLoss |-> 12000 * den + (o - p) * 4000]

GradeResidual(p, o, den) ==
    IF 100 * p >= 100 * o - 3 * den \/ 100 * p >= 25 * den
    THEN [category |-> "best", evLoss |-> o * 500]
    ELSE IF 100 * p >= 15 * den
    THEN [category |-> "correct", evLoss |-> (o - p) * 1500]
    ELSE IF 100 * p >= 8 * den
    THEN [category |-> "inaccuracy", evLoss |-> 3000 * den + (o - p) * 2000]
    ELSE IF 100 * p >= 3 * den
    THEN [category |-> "wrong", evLoss |-> 6000 * den + (o - p) * 3000]
    ELSE [category |-> "blunder", evLoss |-> 12000 * den + (o - p) * 4000]

Grade(p, o, den) ==
    IF 100 * p >= 100 * o - 3 * den \/ 100 * p >= 25 * den
    THEN [category |-> "best", evLoss |-> Max2(0, (o - p) * 500)]
    ELSE IF 100 * p >= 15 * den
    THEN [category |-> "correct", evLoss |-> (o - p) * 1500]
    ELSE IF 100 * p >= 8 * den
    THEN [category |-> "inaccuracy", evLoss |-> 3000 * den + (o - p) * 2000]
    ELSE IF 100 * p >= 3 * den
    THEN [category |-> "wrong", evLoss |-> 6000 * den + (o - p) * 3000]
    ELSE [category |-> "blunder", evLoss |-> 12000 * den + (o - p) * 4000]

\* evaluateAction(playerAction, gtoStrategy, metrics).  With an empty table
\* sortedActions[0] is undefined and reading its [0] throws a TypeError.
evaluateAction(action, strategy) ==
    LET playerFreq    == FreqOf(strategy, action)
        sortedActions == SortByFreqDesc(strategy.entries)
    IN  IF sortedActions = <<>>
        THEN [threw |-> TRUE]
        ELSE LET optimalAction == sortedActions[1].a
                 optimalFreq   == sortedActions[1].f
                 g             == Grade(playerFreq, optimalFreq, strategy.den)
             IN  [threw            |-> FALSE,
                  category         |-> g.category,
                  evLoss           |-> Min2(g.evLoss, 25000 * strategy.den),
                  playerFrequency  |-> playerFreq,
                  optimalAction    |-> optimalAction,
                  optimalFrequency |-> optimalFreq,
                  den              |-> strategy.den,
                  top3Actions      |-> SubSeq(sortedActions, 1,
                                              Min2(3, Len(sortedActions)))]


\* --------------------------------------------------------- poker-engine.js

Suits == {"s", "h", "d", "c"}

RankNames == {"2", "3", "4", "5", "6", "7", "8", "9", "T", "J", "Q", "K", "A"}

\* this.rankValues
rankValues ==
    [r \in RankNames |->
        CASE r = "2" -> 2 [] r = "3" -> 3 [] r = "4" -> 4 [] r = "5" -> 5
          [] r = "6" -> 6 [] r = "7" -> 7 [] r = "8" -> 8 [] r = "9" -> 9
          [] r = "T" -> 10 [] r = "J" -> 11 [] r = "Q" -> 12 [] r = "K" -> 13
          [] r = "A" -> 14]

Card(r, s) == [rank |-> r, suit |-> s]

Range(f) == {f[i] : i \in DOMAIN f}

SuitsOfCards(arr) == {arr[i].suit : i \in 1..Len(arr)}

\* Math.max(...xs) and Math.min(...xs) of a non-empty array.
MaxOf(xs) == CHOOSE m \in {xs[i] : i \in 1..Len(xs)} :
                 \A i \in 1..Len(xs) : xs[i] <= m
MinOf(xs) == CHOOSE m \in {xs[i] : i \in 1..Len(xs)} :
                 \A i \in 1..Len(xs) : xs[i] >= m

\* [...xs].sort((a, b) => b - a): a stable sort of numbers, descending.
InsertNumDesc(x, sorted) ==
    LET RECURSIVE Ins(_)
        Ins(s) == IF s = <<>> THEN <<x>>
                  ELSE IF x > Head(s) THEN <<x>> \o s
                  ELSE <<Head(s)>> \o Ins(Tail(s))
    IN Ins(sorted)

RECURSIVE SortDesc(_)
SortDesc(xs) ==
    IF xs = <<>> THEN <<>>
    ELSE InsertNumDesc(xs[Len(xs)], SortDesc(SubSeq(xs, 1, Len(xs) - 1)))

\* xs.filter(P), for P given as the set of the values it keeps.
RECURSIVE FilterIn(_, _)
FilterIn(xs, keep) ==
    IF xs = <<>> THEN <<>>
    ELSE IF Head(xs) \in keep THEN <<Head(xs)>> \o FilterIn(Tail(xs), keep)
    ELSE FilterIn(Tail(xs), keep)

\* The numbers from hi down to lo that are in set S, descending: what
\* Object.keys(rankCounts).map(Number).sort((a, b) => b - a) produces.
RECURSIVE DescOf(_, _, _)
DescOf(S, hi, lo) ==
    IF hi < lo THEN <<>>
    ELSE IF hi \in S THEN <<hi>> \o DescOf(S, hi - 1, lo)
    ELSE DescOf(S, hi - 1, lo)

\* sortedRanks.reduce((acc, r, i) => acc + r * Math.pow(100, top - i), 0)
RECURSIVE Pow100(_)
Pow100(n) == IF n = 0 THEN 1 ELSE 100 * Pow100(n - 1)

RECURSIVE Base100(_, _)
Base100(xs, top) ==
    IF xs = <<>> THEN 0
    ELSE Head(xs) * Pow100(top) + Base100(Tail(xs), top - 1)

\* checkStraight(sortedRanks): the first gap that is not 1 decides, by the
\* wheel pattern alone.
IsWheel(sortedRanks) ==
    /\ Len(sortedRanks) >= 5
    /\ sortedRanks[1] = 14 /\ sortedRanks[2] = 5 /\ sortedRanks[3] = 4
    /\ sortedRanks[4] = 3 /\ sortedRanks[5] = 2

checkStraight(sortedRanks) ==
    LET RECURSIVE From(_)
        From(i) == IF i > Len(sortedRanks) - 1 THEN TRUE
                   ELSE IF sortedRanks[i] - sortedRanks[i + 1] # 1
                        THEN IsWheel(sortedRanks)
                        ELSE From(i + 1)
    IN From(1)

\* suits.every(s => s === suits[0]); AllSuitsAsNext compares each suit with
\* the next one only up to the third card.
AllSuitsAsNext(suits) == \A i \in 1..3 : suits[i] = suits[i + 1]

AllSuitsAsFirst(suits) == \A i \in 1..Len(suits) : suits[i] = suits[1]

evaluateFiveCards(five) ==
    LET ranks       == [i \in 1..Len(five) |-> rankValues[five[i].rank]]
        suits       == [i \in 1..Len(five) |-> five[i].suit]
        rankSet     == {ranks[i] : i \in 1..Len(ranks)}
        rankCounts  == [r \in rankSet |->
                           Cardinality({i \in 1..Len(ranks) : ranks[i] = r})]
        uniqueAsc   == DescOf(rankSet, 14, 2)
        counts      == SortDesc([i \in 1..Len(uniqueAsc) |->
                                    rankCounts[uniqueAsc[Len(uniqueAsc) + 1 - i]]])
        uniqueRanks == DescOf(rankSet, 14, 2)
        WithCount(n) == FilterIn(uniqueRanks, {r \in rankSet : rankCounts[r] = n})
        isFlush     == AllSuitsAsFirst(suits)
        sortedRanks == SortDesc(ranks)
        isStraight  == checkStraight(sortedRanks)
    IN  IF isFlush /\ isStraight
        THEN [rank |-> 8, value |-> MaxOf(sortedRanks),
              description |-> IF sortedRanks[1] = 14 THEN "Royal Flush"
                              ELSE "Straight Flush",
              kickers |-> sortedRanks]
        ELSE IF counts[1] = 4
        THEN LET quad == WithCount(4)[1]  kicker == WithCount(1)[1]
             IN  [rank |-> 7, value |-> quad * 1000 + kicker,
                  description |-> "Four of a Kind", kickers |-> <<quad, kicker>>]
        ELSE IF counts[1] = 3 /\ counts[2] = 2
        THEN LET trips == WithCount(3)[1]  pair == WithCount(2)[1]
             IN  [rank |-> 6, value |-> trips * 1000 + pair,
                  description |-> "Full House", kickers |-> <<trips, pair>>]
        ELSE IF isFlush
        THEN [rank |-> 5, value |-> Base100(sortedRanks, 4),
              description |-> "Flush", kickers |-> sortedRanks]
        ELSE IF isStraight
        THEN [rank |-> 4, value |-> MaxOf(sortedRanks),
              description |-> "Straight", kickers |-> sortedRanks]
        ELSE IF counts[1] = 3
        THEN LET trips == WithCount(3)[1]  kickers == WithCount(1)
             IN  [rank |-> 3,
                  value |-> trips * 10000 + kickers[1] * 100 + kickers[2],
                  description |-> "Three of a Kind",
                  kickers |-> <<trips>> \o kickers]
        ELSE IF counts[1] = 2 /\ counts[2] = 2
        THEN LET pairs == SortDesc(WithCount(2))  kicker == WithCount(1)[1]
             IN  [rank |-> 2,
                  value |-> pairs[1] * 10000 + pairs[2] * 100 + kicker,
                  description |-> "Two Pair", kickers |-> pairs \o <<kicker>>]
        ELSE IF counts[1] = 2
        THEN LET pair == WithCount(2)[1]  kickers == WithCount(1)
             IN  [rank |-> 1,
                  value |-> pair * 1000000 + Base100(kickers, 2),
                  description |-> "One Pair", kickers |-> <<pair>> \o kickers]
        ELSE [rank |-> 0, value |-> Base100(sortedRanks, 4),
              description |-> "High Card", kickers |-> sortedRanks]

\* getCombinations(arr, size)
RECURSIVE getCombinations(_, _)
getCombinations(arr, size) ==
    IF size > Len(arr) THEN <<>>
    ELSE IF size = Len(arr) THEN <<arr>>
    ELSE IF size = 1 THEN [i \in 1..Len(arr) |-> <<arr[i]>>]
    ELSE LET RECURSIVE Loop(_)
             Loop(i) ==
                 IF i > Len(arr) - size + 1 THEN <<>>
                 ELSE LET tailCombos ==
                              getCombinations(SubSeq(arr, i + 1, Len(arr)), size - 1)
                      IN  [k \in 1..Len(tailCombos) |-> <<arr[i]>> \o tailCombos[k]]
                          \o Loop(i + 1)
         IN Loop(1)

\* The comparison without its tie-break on value.
BeatsOnRank(a, b) == a.rank > b.rank

\* The comparison of evaluateHand's loop, and of calculateEquity's win test.
Beats(a, b) == a.rank > b.rank \/ (a.rank = b.rank /\ a.value > b.value)

\* evaluateHand without its guard on cards.length.
evaluateHandUnguarded(arr) ==
    LET allCombos == getCombinations(arr, 5)
        RECURSIVE Best(_, _)
        Best(k, bestHand) ==
            IF k > Len(allCombos) THEN bestHand
            ELSE LET e == evaluateFiveCards(allCombos[k])
                 IN  Best(k + 1, IF Beats(e, bestHand) THEN e ELSE bestHand)
    IN Best(1, [rank |-> 0, value |-> 0, description |-> "High Card",
                kickers |-> <<>>])

\* evaluateHand(cards)
evaluateHand(arr) ==
    IF Len(arr) < 5 THEN [rank |-> 0, value |-> 0, description |-> "High Card"]
    ELSE LET allCombos == getCombinations(arr, 5)
             RECURSIVE Best(_, _)
             Best(k, bestHand) ==
                 IF k > Len(allCombos) THEN bestHand
                 ELSE LET e == evaluateFiveCards(allCombos[k])
                      IN  Best(k + 1, IF Beats(e, bestHand) THEN e ELSE bestHand)
         IN Best(1, [rank |-> 0, value |-> 0, description |-> "High Card",
                     kickers |-> <<>>])


\* ---------------------------------------------------- gto-solver-advanced.js

\* calculateHandStrength(heroCards, board), in sixteen-hundredths:
\* rank / 8 + (avgHeroRank - 7.5) / 100, clamped to [0, 1].
calculateHandStrength(heroCards, board) ==
    LET handEval == evaluateHand(heroCards \o board)
        sum      == rankValues[heroCards[1].rank] + rankValues[heroCards[2].rank]
    IN  Max2(0, Min2(1600, 200 * handEval.rank + 8 * (sum - 15)))

\* The wetness sums whose floating-point value lies just above the decimal
\* value they have in exact arithmetic, where that decimal value is one the
\* code compares wetness with: 0.4 + 0.18 + 0.12 is 0.7000000000000001,
\* 0.4 + 0.2 is 0.6000000000000001, 0.4 + 0.2 - 0.1 - 0.15 is
\* 0.3500000000000001, and so on.
WetnessRoundsUp(flushDraw, connected, paired, trips, high2, broadway, lowDisc, dryGap) ==
    LET on == <<flushDraw, connected, paired, trips, high2, broadway, lowDisc, dryGap>>
        T  == TRUE
        F  == FALSE
    IN  on \in { <<F, T, F, F, F, F, F, F>>,    \* 0.70
                 <<F, T, T, F, T, F, F, F>>,    \* 0.70
                 <<T, F, F, F, T, F, F, F>>,    \* 0.70
                 <<F, T, T, F, F, F, F, F>>,    \* 0.60
                 <<T, F, F, F, F, F, F, F>>,    \* 0.60
                 <<T, F, T, F, T, F, F, F>>,    \* 0.60
                 <<T, F, T, T, F, F, F, F>> }   \* 0.35

\* Comparisons of a texture's wetness with hundredths h.
WetAbove(texture, h) ==
    texture.wetness > h \/ (texture.wetness = h /\ texture.wetnessUp)
WetAtLeast(texture, h) == texture.wetness >= h
WetAtMost(texture, h) == ~WetAbove(texture, h)
WetBelow(texture, h) == texture.wetness < h

\* The classification by wetness alone, without the "Special cases".
classifyTextureByWetness(wetness, wetnessUp, paired, trips) ==
    IF wetness >= 70 THEN "wet"
    ELSE IF wetness < 35 \/ (wetness = 35 /\ ~wetnessUp) THEN "dry"
    ELSE "medium"

\* "Classify board type" and "Special cases" of analyzeAdvancedBoardTexture.
classifyTexture(wetness, wetnessUp, paired, trips) ==
    IF trips \/ paired THEN "paired"
    ELSE IF wetness >= 70 THEN "wet"
    ELSE IF wetness < 35 \/ (wetness = 35 /\ ~wetnessUp) THEN "dry"
    ELSE "medium"

\* analyzeAdvancedBoardTexture(board)
analyzeAdvancedBoardTexture(board) ==
    IF Len(board) < 3 THEN [type |-> "preflop"]
    ELSE
    LET n           == Len(board)
        ranks       == [i \in 1..n |-> rankValues[board[i].rank]]
        suits       == [i \in 1..n |-> board[i].suit]
        sortedRanks == SortDesc(ranks)
        rankSet     == Range(ranks)
        RankCount(r) == Cardinality({i \in 1..n : ranks[i] = r})
        uniqueRanks == Cardinality(rankSet)
        paired      == uniqueRanks < n
        trips       == \E r \in rankSet : RankCount(r) >= 3
        suitSet     == Range(suits)
        SuitCount(x) == Cardinality({i \in 1..n : suits[i] = x})
        maxSuitCount == CHOOSE m \in {SuitCount(x) : x \in suitSet} :
                            \A x \in suitSet : SuitCount(x) <= m
        flushDraw   == maxSuitCount >= 3
        monochrome  == maxSuitCount = 3
        twoTone     == Cardinality(suitSet) = 2
        rainbow     == Cardinality(suitSet) = 3
        gaps        == [i \in 1..(n - 1) |-> sortedRanks[i] - sortedRanks[i + 1]]
        maxGap      == MaxOf(gaps)
        minGap      == MinOf(gaps)
        connected   == maxGap <= 2
        doubleConnected == \A i \in 1..(n - 1) : gaps[i] <= 2
        straightPossible == maxGap <= 4
        highCards   == Cardinality({i \in 1..n : ranks[i] >= 10})
        broadway    == \A i \in 1..n : ranks[i] >= 10
        lowBoard    == \A i \in 1..n : ranks[i] <= 9
        hasAce      == 14 \in rankSet
        sum         == 40
                       + (IF flushDraw THEN 20 ELSE 0)
                       + (IF connected THEN 18 ELSE 0)
                       + (IF doubleConnected THEN 12 ELSE 0)
                       - (IF paired THEN 10 ELSE 0)
                       - (IF trips THEN 15 ELSE 0)
                       + (IF highCards >= 2 THEN 10 ELSE 0)
                       + (IF broadway THEN 12 ELSE 0)
                       - (IF lowBoard /\ ~connected THEN 20 ELSE 0)
                       - (IF rainbow /\ maxGap > 4 THEN 18 ELSE 0)
        wetness     == Max2(0, Min2(100, sum))
        wetnessUp   == WetnessRoundsUp(flushDraw, connected, paired, trips,
                                       highCards >= 2, broadway,
                                       lowBoard /\ ~connected,
                                       rainbow /\ maxGap > 4)
    IN  [type        |-> classifyTexture(wetness, wetnessUp, paired, trips),
         wetness     |-> wetness,
         wetnessUp   |-> wetnessUp,
         ranks       |-> sortedRanks,
         paired      |-> paired,
         trips       |-> trips,
         flushDraw   |-> flushDraw,
         flushPossible |-> flushDraw,
         monochrome  |-> monochrome,
         twoTone     |-> twoTone,
         rainbow     |-> rainbow,
         connected   |-> connected,
         doubleConnected |-> doubleConnected,
         straightPossible |-> straightPossible,
         highCards   |-> highCards,
         broadway    |-> broadway,
         lowBoard    |-> lowBoard,
         hasAce      |-> hasAce,
         maxGap      |-> maxGap,
         minGap      |-> minGap,
         uniqueRanks |-> uniqueRanks]

\* allRanks as sorted, with its repeated ranks.
allRanksSorted(allRanks) == SortDesc(allRanks)

\* [...new Set(allRanks)] of the descending allRanks.
uniqueRanksOf(allRanks) == DescOf(Range(allRanks), 14, 2)

\* analyzeDraws(heroHand, board)
analyzeDraws(heroHand, board) ==
    LET all         == heroHand \o board
        heroRanks   == [i \in 1..Len(heroHand) |-> rankValues[heroHand[i].rank]]
        boardRanks  == [i \in 1..Len(board) |-> rankValues[board[i].rank]]
        SuitCount(x) == Cardinality({i \in 1..Len(all) : all[i].suit = x})
        flushDraw   == \E x \in SuitsOfCards(all) : SuitCount(x) >= 4
        uniqueRanks == uniqueRanksOf(heroRanks \o boardRanks)
        Span(i)     == uniqueRanks[i] - uniqueRanks[i + 3]
        straightDraw == \E i \in 1..(Len(uniqueRanks) - 3) : Span(i) = 3
        gutshot     == \E i \in 1..(Len(uniqueRanks) - 3) : Span(i) = 4
        topBoardRank == MaxOf(boardRanks)
        overcard    == \E i \in 1..Len(heroRanks) : heroRanks[i] > topBoardRank
        backdoorFlush == \E x \in SuitsOfCards(all) : SuitCount(x) = 3
    IN  [flushDraw    |-> flushDraw,
         straightDraw |-> straightDraw,
         gutshot      |-> gutshot,
         overcard     |-> overcard,
         backdoorFlush |-> backdoorFlush,
         comboDraws   |-> flushDraw /\ straightDraw,
         strongDraw   |-> flushDraw \/ straightDraw,
         totalOuts    |-> (IF flushDraw THEN 9 ELSE 0)
                          + (IF straightDraw THEN 8 ELSE 0)
                          + (IF gutshot THEN 4 ELSE 0)
                          + (IF overcard THEN 3 ELSE 0)]

\* this.equityTables, in hundredths; a texture type without an entry reads
\* undefined, and "|| fallback" then gives the fallback.
EquityTable(table, type, fallback) ==
    IF type \in DOMAIN table THEN table[type] ELSE fallback

overpairEquity == [dry |-> 82, medium |-> 78, wet |-> 72, paired |-> 85]
topPairEquity  == [dry |-> 68, medium |-> 63, wet |-> 58, paired |-> 70]

\* The test of calculateAccurateEquity's "Top pair" branch.
IsTopPair(heroRanks, topBoardCard, handEval) ==
    MaxOf(heroRanks) = topBoardCard /\ handEval.rank >= 1

\* calculateAccurateEquity(heroHand, board, boardTexture, ...): the category
\* and the base equity in hundredths, then the equity in ten-thousandths.
\* The only sum of the branch table that floating point rounds across a band
\* threshold is 0.35 + 0.05 = 0.39999999999999997, just below 0.40.
MadeHand(category, baseEquity) ==
    [category |-> category, baseEquity |-> baseEquity, roundsDown |-> FALSE]

\* The branch chain on "const evaluation = ..." and "const draws = ...".
classifyEvaluated(heroRanks, topBoardCard, handEval, draws, boardTexture) ==
    IF heroRanks[1] = heroRanks[2] /\ heroRanks[1] > topBoardCard
    THEN MadeHand("overpair", EquityTable(overpairEquity, boardTexture.type, 78))
    ELSE IF IsTopPair(heroRanks, topBoardCard, handEval)
    THEN MadeHand("topPair",
                  EquityTable(topPairEquity, boardTexture.type, 63)
                  + (IF MinOf(heroRanks) >= 11 THEN 5
                     ELSE IF MinOf(heroRanks) <= 7 THEN -5 ELSE 0))
    ELSE IF heroRanks[1] = heroRanks[2]
    THEN IF heroRanks[1] >= 10 THEN MadeHand("underpair", 55)
         ELSE MadeHand("smallPair", 42)
    ELSE IF handEval.rank >= 2
    THEN MadeHand("twoPairPlus", 80 + (handEval.rank - 2) * 5)
    ELSE IF draws.flushDraw
    THEN MadeHand("unknown", 36 + (IF draws.overcard THEN 8 ELSE 0))
    ELSE IF draws.straightDraw
    THEN MadeHand("unknown", 32 + (IF draws.overcard THEN 8 ELSE 0))
    ELSE IF draws.gutshot THEN MadeHand("unknown", 18)
    ELSE IF MaxOf(heroRanks) >= 13
    THEN [category |-> "unknown", baseEquity |-> 40, roundsDown |-> TRUE]
    ELSE MadeHand("unknown", 35)

classifyMadeHand(heroHand, board, boardTexture) ==
    classifyEvaluated([i \in 1..Len(heroHand) |-> rankValues[heroHand[i].rank]],
                      MaxOf([i \in 1..Len(board) |-> rankValues[board[i].rank]]),
                      evaluateHand(heroHand \o board),
                      analyzeDraws(heroHand, board),
                      boardTexture)

\* The texture adjustment without the clamp.
adjustEquityUnclamped(made, boardTexture) ==
    IF "wetness" \in DOMAIN boardTexture /\ WetAbove(boardTexture, 70)
    THEN made.baseEquity * 95
    ELSE IF "wetness" \in DOMAIN boardTexture /\ WetBelow(boardTexture, 40)
    THEN made.baseEquity * 105
    ELSE made.baseEquity * 100 - (IF made.roundsDown THEN 1 ELSE 0)

\* The texture adjustment and the clamp to [0.05, 0.95].
adjustEquity(made, boardTexture) ==
    LET hasWet   == "wetness" \in DOMAIN boardTexture
        scaled   == IF hasWet /\ WetAbove(boardTexture, 70)
                    THEN made.baseEquity * 95
                    ELSE IF hasWet /\ WetBelow(boardTexture, 40)
                    THEN made.baseEquity * 105
                    ELSE made.baseEquity * 100 - (IF made.roundsDown THEN 1 ELSE 0)
    IN  Max2(500, Min2(9500, scaled))

calculateAccurateEquity(heroHand, board, boardTexture) ==
    adjustEquity(classifyMadeHand(heroHand, board, boardTexture), boardTexture)

\* classifyHand with the thresholds read in hundredths.
classifyHandInHundredths(equity) ==
    IF equity >= 95 THEN "nuts"
    ELSE IF equity >= 85 THEN "veryStrong"
    ELSE IF equity >= 70 THEN "strong"
    ELSE IF equity >= 60 THEN "mediumStrong"
    ELSE IF equity >= 50 THEN "medium"
    ELSE IF equity >= 40 THEN "marginal"
    ELSE "weak"

\* classifyHand(heroHand, board, equity), on this.config.equity.
classifyHand(equity) ==
    IF equity >= 9500 THEN "nuts"
    ELSE IF equity >= 8500 THEN "veryStrong"
    ELSE IF equity >= 7000 THEN "strong"
    ELSE IF equity >= 6000 THEN "mediumStrong"
    ELSE IF equity >= 5000 THEN "medium"
    ELSE IF equity >= 4000 THEN "marginal"
    ELSE "weak"

\* analyzeBlockers(heroHand, board, boardTexture)
analyzeBlockers(heroHand, board, boardTexture) ==
    LET heroRanks  == {heroHand[i].rank : i \in 1..Len(heroHand)}
        heroSuits  == {heroHand[i].suit : i \in 1..Len(heroHand)}
        aceBlocker == "A" \in heroRanks
        kingBlocker == "K" \in heroRanks
        SuitCount(x) == Cardinality({i \in 1..Len(board) : board[i].suit = x})
        \* Object.keys(dominantSuit).find(s => dominantSuit[s] >= 2): the
        \* keys are in the order the suits first appear on the board.
        found      == {i \in 1..Len(board) : SuitCount(board[i].suit) >= 2}
        flushSuit  == board[CHOOSE i \in found : \A j \in found : i <= j].suit
        flushBlocker == /\ boardTexture.flushDraw
                        /\ found # {}
                        /\ flushSuit \in heroSuits
    IN  [aceBlocker      |-> aceBlocker,
         kingBlocker     |-> kingBlocker,
         flushBlocker    |-> flushBlocker,
         straightBlocker |-> boardTexture.connected,
         strongBlocker   |-> aceBlocker \/ (flushBlocker /\ boardTexture.flushDraw)]

\* positions.indexOf(p)
PositionIndex(p) ==
    CASE p = "UTG" -> 0 [] p = "HJ" -> 1 [] p = "CO" -> 2 [] p = "BTN" -> 3
      [] p = "SB" -> 4 [] p = "BB" -> 5 [] OTHER -> -1

\* calculateRangeAdvantage(position, villainPosition, board, preflopAction):
\* the advantage in hundredths.
advantageOn(boardTexture, position, villainPosition, preflopAction) ==
    (IF boardTexture.highCards >= 2 /\ preflopAction = "srp" THEN -10 ELSE 0)
    + (IF boardTexture.lowBoard THEN 8 ELSE 0)
    + (IF boardTexture.flushDraw THEN 2 ELSE 0)
    + (IF boardTexture.connected THEN 3 ELSE 0)
    + (IF PositionIndex(position) > PositionIndex(villainPosition) THEN 5 ELSE 0)

describeAdvantage(advantage) ==
    [value |-> advantage,
     description |-> IF advantage > 10 THEN "significant hero"
                     ELSE IF advantage > 5 THEN "moderate hero"
                     ELSE IF advantage < -10 THEN "significant villain"
                     ELSE IF advantage < -5 THEN "moderate villain"
                     ELSE "neutral"]

calculateRangeAdvantage(position, villainPosition, board, preflopAction) ==
    describeAdvantage(advantageOn(analyzeAdvancedBoardTexture(board),
                                  position, villainPosition, preflopAction))

\* calculateComprehensiveMetrics(heroHand, board, villainPosition, preflopAction)
metricsRecord(handStrength, equity, boardTexture, draws, blockers) ==
    [handStrength |-> handStrength,
     equity       |-> equity,
     boardTexture |-> boardTexture,
     draws        |-> draws,
     handCategory |-> classifyHand(equity),
     blockers     |-> blockers]

metricsOn(heroHand, board, boardTexture) ==
    metricsRecord(calculateHandStrength(heroHand, board),
                  calculateAccurateEquity(heroHand, board, boardTexture),
                  boardTexture,
                  analyzeDraws(heroHand, board),
                  analyzeBlockers(heroHand, board, boardTexture))

calculateComprehensiveMetrics(heroHand, board) ==
    metricsOn(heroHand, board, analyzeAdvancedBoardTexture(board))

\* A table literal "{ k1: 0, k2: 0, ... }", weights in hundredths.
ZeroTable(keys) == Table([i \in 1..Len(keys) |-> Entry(keys[i], 0)], 100)

\* strategy[a] = f on a key the literal already holds: the key keeps its place.
Assign(strategy, a, f) ==
    Table([i \in 1..Len(strategy.entries) |->
              IF strategy.entries[i].a = a THEN Entry(a, f)
              ELSE strategy.entries[i]],
          strategy.den)

\* A run of assignments <<key, weight>>, in the order they are executed.
RECURSIVE AssignAll(_, _)
AssignAll(strategy, writes) ==
    IF writes = <<>> THEN strategy
    ELSE AssignAll(Assign(strategy, Head(writes)[1], Head(writes)[2]), Tail(writes))

\* getAdvancedFacingBetStrategy(metrics, betSize, pot, isHeroIP, ...).
\* betSize and pot are in tenths of a big blind.  equity >= potOdds + 0.05
\* and totalOuts / 47 >= potOdds are cleared of their denominators.
getAdvancedFacingBetStrategy(metrics, betSize, pot, isHeroIP) ==
    LET strategy == ZeroTable(<<"fold", "call", "raise_0.33", "raise_0.5",
                                "raise_0.67", "raise_1.0", "raise_1.5">>)
        handCategory == metrics.handCategory
        total        == pot + betSize + betSize
        oddsMet      == metrics.equity * total >= 10000 * betSize + 500 * total
        drawOddsMet  == metrics.draws.totalOuts * total >= 47 * betSize
    IN  IF handCategory \in {"nuts", "veryStrong"}
        THEN AssignAll(strategy, << <<"raise_1.0", 45>>, <<"raise_0.67", 35>>,
                                    <<"call", 15>>, <<"fold", 5>> >>)
        ELSE IF handCategory = "strong"
        THEN IF isHeroIP
             THEN AssignAll(strategy, << <<"raise_0.67", 35>>, <<"raise_1.0", 25>>,
                                         <<"call", 35>>, <<"fold", 5>> >>)
             ELSE AssignAll(strategy, << <<"call", 60>>, <<"raise_0.67", 25>>,
                                         <<"raise_1.0", 10>>, <<"fold", 5>> >>)
        ELSE IF handCategory = "mediumStrong"
        THEN AssignAll(strategy, << <<"call", 70>>, <<"fold", 20>>,
                                    <<"raise_0.67", 10>> >>)
        ELSE IF handCategory = "medium"
        THEN IF oddsMet
             THEN AssignAll(strategy, << <<"call", 65>>, <<"fold", 35>> >>)
             ELSE AssignAll(strategy, << <<"call", 40>>, <<"fold", 60>> >>)
        ELSE IF metrics.draws.strongDraw
        THEN IF drawOddsMet
             THEN AssignAll(strategy,
                      << <<"call", 70>> >>
                      \o (IF metrics.draws.comboDraws
                          THEN << <<"raise_0.67", 20>> >> ELSE << >>)
                      \o << <<"fold", 10>> >>)
             ELSE AssignAll(strategy, << <<"call", 40>>, <<"fold", 60>> >>)
        ELSE IF handCategory = "marginal"
        THEN AssignAll(strategy,
                 << <<"fold", 75>>, <<"call", 20>> >>
                 \o (IF metrics.blockers.strongBlocker
                        /\ WetAbove(metrics.boardTexture, 60)
                     THEN << <<"raise_1.0", 5>> >> ELSE << >>))
        ELSE AssignAll(strategy,
                 << <<"fold", 90>> >>
                 \o (IF metrics.blockers.aceBlocker
                        /\ metrics.boardTexture.flushDraw
                        /\ ~metrics.boardTexture.paired
                     THEN << <<"raise_1.0", 8>>, <<"fold", 82>> >> ELSE << >>)
                 \o << <<"call", 2>> >>)

\* The facing-raise table that never folds the nuts or a very strong hand.
getAdvancedFacingRaiseStrategyNoFold(metrics) ==
    LET strategy == ZeroTable(<<"fold", "call", "raise_1.0", "raise_1.5">>)
        handCategory == metrics.handCategory
    IN  IF handCategory \in {"nuts", "veryStrong"}
        THEN AssignAll(strategy, << <<"raise_1.5", 40>>, <<"call", 50>> >>)
        ELSE IF handCategory = "strong"
        THEN AssignAll(strategy, << <<"call", 75>>, <<"raise_1.0", 15>>,
                                    <<"fold", 10>> >>)
        ELSE IF handCategory = "mediumStrong"
        THEN AssignAll(strategy, << <<"call", 55>>, <<"fold", 45>> >>)
        ELSE IF metrics.equity >= 5000
        THEN AssignAll(strategy, << <<"call", 35>>, <<"fold", 65>> >>)
        ELSE AssignAll(strategy, << <<"fold", 95>>, <<"call", 5>> >>)

\* getAdvancedFacingRaiseStrategy(metrics, betSize, pot, isHeroIP, ...)
getAdvancedFacingRaiseStrategy(metrics) ==
    LET strategy == ZeroTable(<<"fold", "call", "raise_1.0", "raise_1.5">>)
        handCategory == metrics.handCategory
    IN  IF handCategory \in {"nuts", "veryStrong"}
        THEN AssignAll(strategy, << <<"raise_1.5", 40>>, <<"call", 50>>,
                                    <<"fold", 10>> >>)
        ELSE IF handCategory = "strong"
        THEN AssignAll(strategy, << <<"call", 75>>, <<"raise_1.0", 15>>,
                                    <<"fold", 10>> >>)
        ELSE IF handCategory = "mediumStrong"
        THEN AssignAll(strategy, << <<"call", 55>>, <<"fold", 45>> >>)
        ELSE IF metrics.equity >= 5000
        THEN AssignAll(strategy, << <<"call", 35>>, <<"fold", 65>> >>)
        ELSE AssignAll(strategy, << <<"fold", 95>>, <<"call", 5>> >>)

\* getAdvancedCheckToHeroStrategy(metrics, pot, stack, isHeroIP, ...)
getAdvancedCheckToHeroStrategy(metrics, isHeroIP) ==
    LET strategy == ZeroTable(<<"check", "bet_0.33", "bet_0.5", "bet_0.67",
                                "bet_1.0", "bet_1.5">>)
        handCategory == metrics.handCategory
    IN  IF handCategory = "nuts"
        THEN AssignAll(strategy, << <<"bet_1.0", 40>>, <<"bet_0.67", 30>>,
                                    <<"check", 30>> >>)
        ELSE IF handCategory = "veryStrong"
        THEN AssignAll(strategy, << <<"bet_0.67", 40>>, <<"bet_1.0", 35>>,
                                    <<"bet_0.5", 15>>, <<"check", 10>> >>)
        ELSE IF handCategory = "strong"
        THEN AssignAll(strategy, << <<"bet_0.5", 40>>, <<"bet_0.67", 30>>,
                                    <<"check", 25>>, <<"bet_0.33", 5>> >>)
        ELSE IF handCategory = "mediumStrong"
        THEN AssignAll(strategy, << <<"bet_0.33", 35>>, <<"bet_0.5", 25>>,
                                    <<"check", 40>> >>)
        ELSE IF handCategory = "medium"
        THEN IF isHeroIP
             THEN AssignAll(strategy, << <<"check", 50>>, <<"bet_0.33", 35>>,
                                         <<"bet_0.5", 15>> >>)
             ELSE AssignAll(strategy, << <<"check", 70>>, <<"bet_0.33", 20>>,
                                         <<"bet_0.5", 10>> >>)
        ELSE IF metrics.draws.strongDraw
        THEN IF isHeroIP
             THEN AssignAll(strategy, << <<"bet_0.5", 35>>, <<"bet_0.67", 20>>,
                                         <<"check", 45>> >>)
             ELSE AssignAll(strategy, << <<"check", 60>>, <<"bet_0.33", 25>>,
                                         <<"bet_0.5", 15>> >>)
        ELSE IF WetAbove(metrics.boardTexture, 65) /\ isHeroIP
        THEN AssignAll(strategy, << <<"check", 60>>, <<"bet_0.67", 20>>,
                                    <<"bet_0.5", 15>>, <<"bet_1.0", 5>> >>)
        ELSE AssignAll(strategy, << <<"check", 85>>, <<"bet_0.5", 10>>,
                                    <<"bet_0.33", 5>> >>)

\* this.config.cBetFrequencies, in hundredths.
cBetFrequencies ==
    [IP  |-> [dry |-> 85, medium |-> 75, wet |-> 65, paired |-> 70],
     OOP |-> [dry |-> 70, medium |-> 60, wet |-> 50, paired |-> 55]]

\* The threshold with 0.5 taken off.
bluffThresholdHalfOff(cBetFreq) == cBetFreq - 50

\* (cBetFreq - 0.45), in hundredths.
bluffThreshold(cBetFreq) == cBetFreq - 45

\* getAdvancedOpenActionStrategy(metrics, pot, stack, isHeroIP, street,
\* villainPosition, rangeAdvantage); coin is the value Math.random()
\* returns, in hundredths, read by the weak branch only.
getAdvancedOpenActionStrategy(metrics, isHeroIP, rangeAdvantage, coin) ==
    LET strategy == ZeroTable(<<"check", "bet_0.33", "bet_0.5", "bet_0.67",
                                "bet_1.0">>)
        handCategory == metrics.handCategory
        boardTexture == metrics.boardTexture
        cBetFreq     == IF isHeroIP THEN cBetFrequencies.IP[boardTexture.type]
                        ELSE cBetFrequencies.OOP[boardTexture.type]
        shouldBluff  == coin < bluffThreshold(cBetFreq)
    IN  IF handCategory \in {"veryStrong", "nuts"}
        THEN AssignAll(strategy, << <<"bet_0.67", 40>>, <<"bet_1.0", 35>>,
                                    <<"bet_0.5", 20>>, <<"check", 5>> >>)
        ELSE IF handCategory = "strong"
        THEN AssignAll(strategy, << <<"bet_0.67", 45>>, <<"bet_0.5", 35>>,
                                    <<"check", 15>>, <<"bet_0.33", 5>> >>)
        ELSE IF handCategory = "mediumStrong"
        THEN AssignAll(strategy, << <<"bet_0.5", 40>>, <<"bet_0.33", 25>>,
                                    <<"check", 30>>, <<"bet_0.67", 5>> >>)
        ELSE IF handCategory = "medium"
        THEN IF WetBelow(boardTexture, 50) \/ isHeroIP
             THEN AssignAll(strategy, << <<"bet_0.33", 35>>, <<"bet_0.5", 20>>,
                                         <<"check", 45>> >>)
             ELSE AssignAll(strategy, << <<"check", 65>>, <<"bet_0.33", 25>>,
                                         <<"bet_0.5", 10>> >>)
        ELSE IF metrics.draws.strongDraw
        THEN AssignAll(strategy, << <<"bet_0.5", 35>>, <<"bet_0.67", 25>>,
                                    <<"check", 40>> >>)
        ELSE IF shouldBluff /\ (WetAbove(boardTexture, 60) \/ rangeAdvantage.value > 0)
        THEN AssignAll(strategy, << <<"bet_0.67", 25>>, <<"bet_0.5", 20>>,
                                    <<"check", 55>> >>)
        ELSE AssignAll(strategy, << <<"check", 80>>, <<"bet_0.5", 12>>,
                                    <<"bet_0.33", 8>> >>)

\* normalizeStrategy without the division.
normalizeUnchanged(strategy) == strategy

\* normalizeStrategy(strategy): dividing every weight by the total is, in
\* this representation, taking the total as the denominator.
normalizeStrategy(strategy) ==
    LET total == SumFreq(strategy.entries)
    IN  IF total = 0 \/ total = strategy.den THEN strategy
        ELSE Table(strategy.entries, total)

\* JavaScript's null.
Null == "null"

\* new AdvancedGTOSolver(): the fields the constructor sets.
AdvancedGTOSolver ==
    [engine |-> Null, ranges |-> Null,
     config |-> [cBetFrequencies |-> cBetFrequencies],
     equityTables |-> [overpairEquity |-> overpairEquity,
                       topPairEquity  |-> topPairEquity]]

\* initialize that binds one reference a call.
initializeOneAtATime(this) ==
    IF this.engine = Null THEN [this EXCEPT !.engine = "pokerEngine"]
    ELSE IF this.ranges = Null THEN [this EXCEPT !.ranges = "preflopRanges"]
    ELSE this

\* initialize(), with the globals pokerEngine and preflopRanges defined as
\* they are once the scripts are loaded.
initialize(this) ==
    [this EXCEPT !.engine = IF this.engine = Null THEN "pokerEngine" ELSE @,
                 !.ranges = IF this.ranges = Null THEN "preflopRanges" ELSE @]

\* The switch of getGTOStrategy with the break of 'check_to_hero' left out.
rawStrategyFallThrough(gameState, metrics, rangeAdvantage, coin) ==
    IF gameState.action = "facing_bet"
    THEN getAdvancedFacingBetStrategy(metrics, gameState.betSize,
                                      gameState.pot, gameState.isHeroIP)
    ELSE IF gameState.action = "facing_raise"
    THEN getAdvancedFacingRaiseStrategy(metrics)
    ELSE IF gameState.action \in {"check_to_hero", "open_action"}
    THEN getAdvancedOpenActionStrategy(metrics, gameState.isHeroIP,
                                       rangeAdvantage, coin)
    ELSE Table(<<>>, 100)

\* The strategy getGTOStrategy builds before it normalizes it: the switch on
\* gameState.action, which leaves "let strategy = {}" for any other action.
rawStrategy(gameState, metrics, rangeAdvantage, coin) ==
    IF gameState.action = "facing_bet"
    THEN getAdvancedFacingBetStrategy(metrics, gameState.betSize,
                                      gameState.pot, gameState.isHeroIP)
    ELSE IF gameState.action = "facing_raise"
    THEN getAdvancedFacingRaiseStrategy(metrics)
    ELSE IF gameState.action = "check_to_hero"
    THEN getAdvancedCheckToHeroStrategy(metrics, gameState.isHeroIP)
    ELSE IF gameState.action = "open_action"
    THEN getAdvancedOpenActionStrategy(metrics, gameState.isHeroIP,
                                       rangeAdvantage, coin)
    ELSE Table(<<>>, 100)

\* The object getGTOStrategy returns.
solved(gameState, metrics, rangeAdvantage, coin) ==
    [strategy |-> normalizeStrategy(rawStrategy(gameState, metrics, rangeAdvantage, coin)),
     metrics  |-> metrics,
     rangeAdvantage |-> rangeAdvantage]

\* getGTOStrategy(gameState)
getGTOStrategy(gameState, coin) ==
    solved(gameState,
           calculateComprehensiveMetrics(gameState.heroHand, gameState.board),
           calculateRangeAdvantage(gameState.position, gameState.villainPosition,
                                   gameState.board, gameState.preflopAction),
           coin)

\* convertButtonAction(buttonAction, buttonSize): buttonSize is the number
\* parseFloat made of the button's data-size, written as the template
\* literal prints it (1.0 prints as "1", a missing size as "0").
convertButtonAction(buttonAction, buttonSize) ==
    IF buttonAction \in {"fold", "call", "check"} THEN buttonAction
    ELSE IF buttonAction \in {"raise", "bet"}
    THEN buttonAction \o "_" \o buttonSize
    ELSE buttonAction

\* ------------------------------------------- the grader on drawn tables

\* The labels a drawn table may use as keys, and one more that no drawn
\* table holds.
GradeKeys == {"fold", "call", "raise_0.67"}
AbsentKey == "raise_1.5"

\* The weights a drawn table may hold, in hundredths: the values at and
\* around the thresholds of the ladder, and 0 and 1.
GradeWeights == {0, 2, 3, 7, 8, 10, 14, 15, 24, 25, 26, 60, 100}

\* The tables of at most MaxKeys distinct keys, in every key order.
GradeTables ==
    { Table(es, 100) :
        es \in UNION { { s \in [1..n -> [a : GradeKeys, f : GradeWeights]] :
                           \A i, j \in 1..n : i # j => s[i].a # s[j].a }
                       : n \in 0..Min2(MaxKeys, Cardinality(GradeKeys)) } }

InitGrade ==
    /\ pc = "submit"
    /\ gtoStrategy \in GradeTables
    /\ playerAction \in GradeKeys \cup {AbsentKey}
    /\ grading = Nil
    /\ cards = Nil /\ evaluation = Nil /\ other = Nil
    /\ otherEvaluation = Nil /\ reorders = 0 /\ outcome = Nil
    /\ currentHand = Nil /\ currentGTOStrategy = Nil /\ random = Nil
    /\ solver = Nil /\ repeatGTOStrategy = Nil
    /\ analyzerInput = Nil /\ analyzerResult = Nil
    /\ session = Nil /\ timers = 0 /\ screen = Nil

\* A caller grades the submitted action.
EvaluateAction ==
    /\ pc = "submit"
    /\ grading' = evaluateAction(playerAction, gtoStrategy)
    /\ pc' = "graded"
    /\ UNCHANGED <<gtoStrategy, playerAction>>
    /\ UNCHANGED handVars
    /\ UNCHANGED appVars
    /\ UNCHANGED solveVars

\* The caller submits the action the grader reported as optimal.
EvaluateOptimal ==
    /\ pc = "graded"
    /\ ~grading.threw
    /\ playerAction' = grading.optimalAction
    /\ grading' = evaluateAction(grading.optimalAction, gtoStrategy)
    /\ pc' = "regraded"
    /\ UNCHANGED gtoStrategy
    /\ UNCHANGED handVars
    /\ UNCHANGED appVars
    /\ UNCHANGED solveVars

NextGrade == EvaluateAction \/ EvaluateOptimal

SpecGrade == InitGrade /\ [][NextGrade]_vars


\* ------------------------------------------ the evaluator on drawn hands

\* The cards the reordered arrays are drawn from: six spades with the
\* wheel among them, and a second five.
PermuteDeck ==
    <<Card("A", "s"), Card("K", "s"), Card("2", "s"), Card("3", "s"),
      Card("4", "s"), Card("5", "s"), Card("5", "h")>>

\* The input arrays of 3 to 7 distinct cards.
PermuteInputs ==
    UNION { Range(getCombinations(PermuteDeck, n)) : n \in 3..7 }

InitPermute ==
    /\ pc = "input"
    /\ cards \in PermuteInputs
    /\ other = cards
    /\ evaluation = Nil /\ otherEvaluation = Nil
    /\ reorders = 0 /\ outcome = Nil
    /\ currentHand = Nil /\ currentGTOStrategy = Nil /\ random = Nil
    /\ solver = Nil /\ repeatGTOStrategy = Nil
    /\ analyzerInput = Nil /\ analyzerResult = Nil
    /\ session = Nil /\ timers = 0 /\ screen = Nil
    /\ gtoStrategy = Nil /\ playerAction = Nil /\ grading = Nil

\* The first call of evaluateHand, on the array as it was given.
EvaluateHand ==
    /\ pc = "input"
    /\ evaluation' = evaluateHand(cards)
    /\ otherEvaluation' = evaluation'
    /\ pc' = "evaluated"
    /\ UNCHANGED <<cards, other, reorders, outcome>>
    /\ UNCHANGED graderVars
    /\ UNCHANGED solveVars
    /\ UNCHANGED appVars

\* A later call of evaluateHand on the same cards with two of them swapped.
ReorderAndEvaluate ==
    /\ pc = "evaluated"
    /\ reorders < MaxReorders
    /\ \E i, j \in 1..Len(cards) :
          /\ i < j
          /\ cards' = [cards EXCEPT ![i] = cards[j], ![j] = cards[i]]
    /\ evaluation' = evaluateHand(cards')
    /\ reorders' = reorders + 1
    /\ UNCHANGED <<pc, other, otherEvaluation, outcome>>
    /\ UNCHANGED graderVars
    /\ UNCHANGED solveVars
    /\ UNCHANGED appVars

NextPermute == EvaluateHand \/ ReorderAndEvaluate

SpecPermute == InitPermute /\ [][NextPermute]_vars

\* The cards two five-card hands are drawn from for a showdown: the ranks
\* of the wheel, of the six-high straight and of the ace-high straight ...
StraightDeck ==
    <<Card("A", "s"), Card("K", "h"), Card("Q", "d"), Card("J", "c"),
      Card("T", "s"), Card("6", "h"), Card("5", "h"), Card("4", "d"),
      Card("3", "c"), Card("2", "s")>>

\* ... and the ranks of pairs, trips, full houses and quads.
PairDeck ==
    <<Card("K", "s"), Card("K", "h"), Card("K", "d"), Card("K", "c"),
      Card("9", "s"), Card("9", "h"), Card("4", "c"), Card("2", "d")>>

ShowdownDecks == {StraightDeck, PairDeck}

InitShowdown ==
    /\ pc = "dealt"
    /\ \E deck \in ShowdownDecks :
          /\ cards \in Range(getCombinations(deck, 5))
          /\ other \in Range(getCombinations(deck, 5))
    /\ evaluation = Nil /\ otherEvaluation = Nil
    /\ reorders = 0 /\ outcome = Nil
    /\ currentHand = Nil /\ currentGTOStrategy = Nil /\ random = Nil
    /\ solver = Nil /\ repeatGTOStrategy = Nil
    /\ analyzerInput = Nil /\ analyzerResult = Nil
    /\ session = Nil /\ timers = 0 /\ screen = Nil
    /\ gtoStrategy = Nil /\ playerAction = Nil /\ grading = Nil

\* The comparison of calculateEquity: both hands are evaluated, and the
\* first wins, ties or loses.
Showdown ==
    /\ pc = "dealt"
    /\ evaluation' = evaluateHand(cards)
    /\ otherEvaluation' = evaluateHand(other)
    /\ outcome' = IF Beats(evaluation', otherEvaluation') THEN "win"
                  ELSE IF /\ evaluation'.rank = otherEvaluation'.rank
                          /\ evaluation'.value = otherEvaluation'.value
                       THEN "tie"
                       ELSE "loss"
    /\ pc' = "shown"
    /\ UNCHANGED <<cards, other, reorders>>
    /\ UNCHANGED graderVars
    /\ UNCHANGED solveVars
    /\ UNCHANGED appVars

NextShowdown == Showdown

SpecShowdown == InitShowdown /\ [][NextShowdown]_vars

\* ------------------------------------------------ the solver on scenarios

\* Hole cards and flops the scenarios are drawn from.
HeroHands ==
    { <<Card("A", "s"), Card("K", "h")>>,
      <<Card("7", "s"), Card("2", "d")>>,
      <<Card("K", "s"), Card("4", "s")>>,
      <<Card("K", "h"), Card("Q", "h")>>,
      <<Card("A", "c"), Card("A", "d")>>,
      <<Card("T", "c"), Card("T", "d")>>,
      <<Card("5", "c"), Card("5", "s")>>,
      <<Card("8", "s"), Card("7", "h")>>,
      <<Card("A", "h"), Card("9", "h")>>,
      <<Card("9", "d"), Card("8", "d")>> }

Flops ==
    { <<Card("K", "d"), Card("9", "s"), Card("4", "c")>>,
      <<Card("A", "h"), Card("Q", "d"), Card("T", "h")>>,
      <<Card("4", "h"), Card("4", "d"), Card("4", "c")>>,
      <<Card("6", "h"), Card("5", "d"), Card("4", "c")>>,
      <<Card("J", "h"), Card("8", "h"), Card("3", "h")>>,
      <<Card("J", "d"), Card("T", "s"), Card("3", "d")>> }

\* gameState.action: the four the switch knows, and one it does not.
Actions == {"facing_bet", "facing_raise", "check_to_hero", "open_action", "showdown"}

\* Bets faced, in tenths of a big blind, into the pot of 6.5 bb.
Pot == 65
BetSizes == {22, 40, 650}

\* <<position, villainPosition>>
Seats == { <<"BB", "UTG">>, <<"CO", "BTN">> }

\* Values of Math.random(), in hundredths.
RandomDraws == {2, 12, 27, 50}

GameStates ==
    { [heroHand |-> h, board |-> b, pot |-> Pot, stack |-> 1000,
       position |-> seat[1], villainPosition |-> seat[2], street |-> "flop",
       isHeroIP |-> ip, action |-> a, betSize |-> bet, preflopAction |-> "srp"] :
         h \in HeroHands, b \in Flops, seat \in Seats, ip \in BOOLEAN,
         a \in Actions, bet \in BetSizes \cup {0} }

Dealable(g) ==
    /\ Range(g.heroHand) \cap Range(g.board) = {}
    /\ g.betSize > 0 <=> g.action \in {"facing_bet", "facing_raise"}
    /\ g.action = "facing_raise" => g.betSize = 40

InitSolve ==
    /\ pc = "scenario"
    /\ currentHand \in {g \in GameStates : Dealable(g)}
    /\ currentGTOStrategy = Nil
    /\ random = Nil
    /\ solver = AdvancedGTOSolver /\ repeatGTOStrategy = Nil
    /\ analyzerInput = Nil /\ analyzerResult = Nil
    /\ session = Nil /\ timers = 0 /\ screen = Nil
    /\ gtoStrategy = Nil /\ playerAction = Nil /\ grading = Nil
    /\ cards = Nil /\ evaluation = Nil /\ other = Nil
    /\ otherEvaluation = Nil /\ reorders = 0 /\ outcome = Nil

\* A call of initialize() before the first hand is solved.
Initialize ==
    /\ pc = "scenario"
    /\ solver' = initialize(solver)
    /\ UNCHANGED <<pc, currentHand, currentGTOStrategy, random, repeatGTOStrategy>>
    /\ UNCHANGED <<graderVars, handVars, appVars>>

\* Whether getGTOStrategy reaches the Math.random() call of the open-action
\* strategy's last branch.
ReadsRandom(action, metrics) ==
    /\ action = "open_action"
    /\ metrics.handCategory \in {"marginal", "weak"}
    /\ ~metrics.draws.strongDraw

\* dealNewHand's call of the solver.
GetGTOStrategy ==
    /\ pc = "scenario"
    /\ \E r \in RandomDraws :
          /\ currentGTOStrategy' = getGTOStrategy(currentHand, r)
          /\ ReadsRandom(currentHand.action, currentGTOStrategy'.metrics) \/ r = 50
          /\ random' = IF ReadsRandom(currentHand.action, currentGTOStrategy'.metrics)
                       THEN r ELSE Nil
    /\ solver' = initialize(solver)
    /\ pc' = "solved"
    /\ UNCHANGED <<currentHand, gtoStrategy, playerAction, grading>>
    /\ UNCHANGED repeatGTOStrategy
    /\ UNCHANGED handVars
    /\ UNCHANGED appVars

\* A second call of getGTOStrategy with the same gameState, with its own
\* value of Math.random().
GetGTOStrategyAgain ==
    /\ pc = "solved"
    /\ \E r \in RandomDraws :
          repeatGTOStrategy' = getGTOStrategy(currentHand, r)
    /\ solver' = initialize(solver)
    /\ pc' = "resolved"
    /\ UNCHANGED <<currentHand, currentGTOStrategy, random>>
    /\ UNCHANGED <<graderVars, handVars, appVars>>

\* The buttons updateActionButtons renders: <<data-action, data-size>>, the
\* size as parseFloat(...) || 0 prints in a template literal.
ActionButtons(action) ==
    IF action = "facing_bet"
    THEN { <<"fold", "0">>, <<"call", "0">>, <<"raise", "0.5">>,
           <<"raise", "0.67">>, <<"raise", "1">>, <<"raise", "1.5">> }
    ELSE IF action \in {"check_to_hero", "open_action"}
    THEN { <<"check", "0">>, <<"bet", "0.33">>, <<"bet", "0.5">>,
           <<"bet", "0.67">>, <<"bet", "1">>, <<"bet", "1.5">> }
    ELSE {}

\* handlePlayerAction(action, size), on a click of a rendered button.
HandlePlayerAction ==
    /\ pc = "solved"
    /\ \E button \in ActionButtons(currentHand.action) :
          LET strategyAction == convertButtonAction(button[1], button[2])
          IN  /\ playerAction' = strategyAction
              /\ grading' = evaluateAction(strategyAction, currentGTOStrategy.strategy)
    /\ gtoStrategy' = currentGTOStrategy.strategy
    /\ pc' = "answered"
    /\ UNCHANGED solveVars
    /\ UNCHANGED handVars
    /\ UNCHANGED appVars

\* A caller of the solver grades one of the strategy's own keys.
EvaluateKey ==
    /\ pc = "solved"
    /\ \E i \in 1..Len(currentGTOStrategy.strategy.entries) :
          LET key == currentGTOStrategy.strategy.entries[i].a
          IN  /\ playerAction' = key
              /\ grading' = evaluateAction(key, currentGTOStrategy.strategy)
    /\ gtoStrategy' = currentGTOStrategy.strategy
    /\ pc' = "answered"
    /\ UNCHANGED solveVars
    /\ UNCHANGED handVars
    /\ UNCHANGED appVars

NextSolve ==
    \/ Initialize
    \/ GetGTOStrategy
    \/ GetGTOStrategyAgain
    \/ HandlePlayerAction
    \/ EvaluateKey

SpecSolve == InitSolve /\ [][NextSolve]_vars

\* ------------------------------------------------ the analyzers on boards

\* The cards boards are drawn from: one deck of high and suited cards, one
\* of low and repeated ranks.
HighDeck ==
    <<Card("A", "s"), Card("K", "s"), Card("Q", "s"), Card("J", "s"),
      Card("T", "s"), Card("8", "h"), Card("K", "d"), Card("7", "s"),
      Card("2", "c")>>

LowDeck ==
    <<Card("9", "s"), Card("4", "h"), Card("2", "s"), Card("2", "h"),
      Card("2", "d"), Card("7", "c"), Card("7", "d")>>

\* Boards of 1 to 5 cards.
Boards ==
    UNION { Range(getCombinations(HighDeck, n)) \cup Range(getCombinations(LowDeck, n)) :
                n \in 1..5 }

\* Hole cards; the first and the last hold a card that boards hold too.
HoleCards ==
    { <<Card("A", "h"), Card("2", "c")>>,
      <<Card("Q", "h"), Card("Q", "d")>>,
      <<Card("K", "s"), Card("9", "h")>> }

InitAnalyze ==
    /\ pc = "analyzable"
    /\ analyzerInput \in [heroHand : HoleCards, board : Boards]
    /\ analyzerResult = Nil
    /\ session = Nil /\ timers = 0 /\ screen = Nil
    /\ currentHand = Nil /\ currentGTOStrategy = Nil /\ random = Nil
    /\ solver = Nil /\ repeatGTOStrategy = Nil
    /\ gtoStrategy = Nil /\ playerAction = Nil /\ grading = Nil
    /\ cards = Nil /\ evaluation = Nil /\ other = Nil
    /\ otherEvaluation = Nil /\ reorders = 0 /\ outcome = Nil

\* What a call of an analyzer gave: the value it returned.
Returned(fn, value) == [fn |-> fn, threw |-> FALSE, value |-> value]

AnalyzeBoardTexture ==
    /\ pc = "analyzable"
    /\ analyzerResult' = Returned("analyzeAdvancedBoardTexture",
                                  analyzeAdvancedBoardTexture(analyzerInput.board))
    /\ pc' = "analyzed"
    /\ UNCHANGED <<analyzerInput, session, timers, screen>>
    /\ UNCHANGED <<graderVars, handVars, solveVars>>

AnalyzeDraws ==
    /\ pc = "analyzable"
    /\ analyzerResult' = Returned("analyzeDraws",
                                  analyzeDraws(analyzerInput.heroHand, analyzerInput.board))
    /\ pc' = "analyzed"
    /\ UNCHANGED <<analyzerInput, session, timers, screen>>
    /\ UNCHANGED <<graderVars, handVars, solveVars>>

\* calculateAccurateEquity with the texture of the board, as
\* calculateComprehensiveMetrics calls it.
CalculateAccurateEquity ==
    /\ pc = "analyzable"
    /\ analyzerResult' = Returned("calculateAccurateEquity",
                                  [equity |-> calculateAccurateEquity(
                                      analyzerInput.heroHand, analyzerInput.board,
                                      analyzeAdvancedBoardTexture(analyzerInput.board))])
    /\ pc' = "analyzed"
    /\ UNCHANGED <<analyzerInput, session, timers, screen>>
    /\ UNCHANGED <<graderVars, handVars, solveVars>>

NextAnalyze == AnalyzeBoardTexture \/ AnalyzeDraws \/ CalculateAccurateEquity

SpecAnalyze == InitAnalyze /\ [][NextAnalyze]_vars

\* ------------------------------------------------- the training session

\* Graded actions a session is followed for.
MaxMoves == 21

\* dealNewHand timers pending at once.
MaxPending == 2

\* Moves and hands of a session during which the player clicks any button,
\* also before the next hand is dealt, and any scenario is generated; after
\* them the player waits for the next hand and clicks RegularButton, and
\* RegularScenario is generated.
MaxVaried == 2

\* "Keep only last 20 hands"
HistoryCap == 20

\* The gameState of a scenario generateScenario returns, for a hero in
\* position behind the raiser.
Scenario(heroHand, board, action, betSize) ==
    [heroHand |-> heroHand, board |-> board, pot |-> Pot, stack |-> 1000,
     position |-> "BTN", villainPosition |-> "CO", street |-> "flop",
     isHeroIP |-> TRUE, action |-> action, betSize |-> betSize,
     preflopAction |-> "srp"]

RegularScenario ==
    Scenario(<<Card("A", "s"), Card("K", "h")>>,
             <<Card("K", "d"), Card("9", "s"), Card("4", "c")>>,
             "facing_bet", 40)

Scenarios ==
    { RegularScenario,
      Scenario(<<Card("7", "s"), Card("2", "d")>>,
               <<Card("A", "h"), Card("Q", "d"), Card("T", "h")>>,
               "check_to_hero", 0) }

\* getGTOStrategy(gameState) on the scenarios, by the value of Math.random().
solvedScenario ==
    [scenario \in Scenarios |->
        [r \in RandomDraws |-> getGTOStrategy(scenario, r)]]

RegularButton(action) ==
    IF action = "facing_bet" THEN <<"call", "0">> ELSE <<"check", "0">>

\* The session object of the constructor and of resetSession.  totalEVLoss
\* is the sequence of the terms added to it, in the order of the additions.
NewSession ==
    [hands |-> 0, moves |-> 0, score |-> 0, bestMoves |-> 0,
     correctMoves |-> 0, inaccuracies |-> 0, wrongMoves |-> 0,
     blunders |-> 0, totalEVLoss |-> <<>>, history |-> <<>>]

\* Math.round of a non-negative quotient.
RoundDiv(n, d) == (2 * n + d) \div (2 * d)

\* updateSessionStats with the switch's break statements left out: a case
\* runs on into the cases below it.
updateSessionStatsFallThrough(s, handEval) ==
    LET Below(category) ==
            CASE category = "best" -> {"best"}
              [] category = "correct" -> {"best", "correct"}
              [] category = "inaccuracy" -> {"best", "correct", "inaccuracy"}
              [] category = "wrong" -> {"best", "correct", "inaccuracy", "wrong"}
              [] OTHER -> {"best", "correct", "inaccuracy", "wrong", "blunder"}
        counted ==
            [s EXCEPT
               !.totalEVLoss  = Append(@, [num |-> handEval.evLoss,
                                           den |-> 10000 * handEval.den]),
               !.bestMoves    = IF handEval.category \in Below("best") THEN @ + 1 ELSE @,
               !.correctMoves = IF handEval.category \in Below("correct") THEN @ + 1 ELSE @,
               !.inaccuracies = IF handEval.category \in Below("inaccuracy") THEN @ + 1 ELSE @,
               !.wrongMoves   = IF handEval.category \in Below("wrong") THEN @ + 1 ELSE @,
               !.blunders     = IF handEval.category \in Below("blunder") THEN @ + 1 ELSE @]
        totalDecisions == counted.bestMoves + counted.correctMoves
                            + counted.inaccuracies + counted.wrongMoves
                            + counted.blunders
    IN  [counted EXCEPT !.score =
            RoundDiv(counted.bestMoves * 100 + counted.correctMoves * 80
                       + counted.inaccuracies * 50 + counted.wrongMoves * 20,
                     totalDecisions)]

\* updateSessionStats(evaluation)
updateSessionStats(s, handEval) ==
    LET counted ==
            [s EXCEPT
               !.totalEVLoss  = Append(@, [num |-> handEval.evLoss,
                                           den |-> 10000 * handEval.den]),
               !.bestMoves    = IF handEval.category = "best" THEN @ + 1 ELSE @,
               !.correctMoves = IF handEval.category = "correct" THEN @ + 1 ELSE @,
               !.inaccuracies = IF handEval.category = "inaccuracy" THEN @ + 1 ELSE @,
               !.wrongMoves   = IF handEval.category = "wrong" THEN @ + 1 ELSE @,
               !.blunders     = IF handEval.category = "blunder" THEN @ + 1 ELSE @]
        totalDecisions == counted.bestMoves + counted.correctMoves
                            + counted.inaccuracies + counted.wrongMoves
                            + counted.blunders
    IN  IF totalDecisions > 0
        THEN [counted EXCEPT !.score =
                 RoundDiv(counted.bestMoves * 100 + counted.correctMoves * 80
                            + counted.inaccuracies * 50 + counted.wrongMoves * 20
                            + counted.blunders * 0,
                          totalDecisions)]
        ELSE counted

\* addToHistory without the pop.
addToHistoryUncapped(history, historyItem) == <<historyItem>> \o history

\* addToHistory(evaluation): unshift of the item, then the pop.
addToHistory(history, historyItem) ==
    LET unshifted == <<historyItem>> \o history
    IN  IF Len(unshifted) > HistoryCap
        THEN SubSeq(unshifted, 1, Len(unshifted) - 1)
        ELSE unshifted

\* const historyItem = {...}
HistoryItem(s, hand, handEval) ==
    [handNum |-> s.hands, heroHand |-> hand.heroHand, board |-> hand.board,
     category |-> handEval.category, evaluation |-> handEval]

\* new PokerTrainer(): the settings screen, no hand dealt.
InitSession ==
    /\ pc = "trainer"
    /\ session = NewSession
    /\ timers = 0
    /\ screen = "settings"
    /\ currentHand = Null /\ currentGTOStrategy = Null
    /\ solver = AdvancedGTOSolver
    /\ random = Nil /\ repeatGTOStrategy = Nil
    /\ analyzerInput = Nil /\ analyzerResult = Nil
    /\ gtoStrategy = Nil /\ playerAction = Nil /\ grading = Nil
    /\ cards = Nil /\ evaluation = Nil /\ other = Nil
    /\ otherEvaluation = Nil /\ reorders = 0 /\ outcome = Nil

\* dealNewHand() on the session s: the hand counted, a scenario generated
\* and solved.
Dealt(s) ==
    /\ session' = [s EXCEPT !.hands = @ + 1]
    /\ \E scenario \in Scenarios, r \in RandomDraws :
          /\ s.hands < MaxVaried \/ scenario = RegularScenario
          /\ currentHand' = scenario
          /\ currentGTOStrategy' = solvedScenario[scenario][r]
          /\ ReadsRandom(scenario.action, currentGTOStrategy'.metrics) \/ r = 50
          /\ random' = IF ReadsRandom(scenario.action, currentGTOStrategy'.metrics)
                       THEN r ELSE Nil
    /\ solver' = initialize(solver)

\* A click of the start button: startTraining().
StartTraining ==
    /\ screen = "settings"
    /\ screen' = "game"
    /\ Dealt(NewSession)
    /\ UNCHANGED <<pc, timers, repeatGTOStrategy, analyzerInput, analyzerResult>>
    /\ UNCHANGED <<graderVars, handVars>>

\* A click of back-to-settings.
BackToSettings ==
    /\ screen = "game"
    /\ screen' = "settings"
    /\ UNCHANGED <<pc, session, timers, analyzerInput, analyzerResult>>
    /\ UNCHANGED <<graderVars, handVars, solveVars>>

\* A click of one of the buttons updateActionButtons rendered:
\* handlePlayerAction(action, size).
ClickActionButton ==
    /\ screen = "game"
    /\ session.moves < MaxMoves
    /\ timers < MaxPending
    /\ \E button \in ActionButtons(currentHand.action) :
          /\ \/ session.moves < MaxVaried
             \/ timers = 0 /\ button = RegularButton(currentHand.action)
          /\ LET strategyAction == convertButtonAction(button[1], button[2])
                 handEval == evaluateAction(strategyAction,
                                            currentGTOStrategy.strategy)
                 moved    == [session EXCEPT !.moves = @ + 1]
                 counted  == updateSessionStats(moved, handEval)
             IN  session' = [counted EXCEPT !.history =
                    addToHistory(@, HistoryItem(counted, currentHand, handEval))]
    /\ timers' = timers + 1
    /\ UNCHANGED <<pc, screen, analyzerInput, analyzerResult>>
    /\ UNCHANGED <<graderVars, handVars, solveVars>>

\* A timer set by handlePlayerAction fires: dealNewHand().
DealNewHand ==
    /\ timers > 0
    /\ timers' = timers - 1
    /\ Dealt(session)
    /\ UNCHANGED <<pc, screen, repeatGTOStrategy, analyzerInput, analyzerResult>>
    /\ UNCHANGED <<graderVars, handVars>>

NextSession ==
    \/ StartTraining
    \/ BackToSettings
    \/ ClickActionButton
    \/ DealNewHand

SpecSession == InitSession /\ [][NextSession]_vars

\* ---------------------------------------------- the scenario generator

\* const positions = [...]
Positions == <<"UTG", "HJ", "CO", "BTN", "SB", "BB">>

\* const raisingPositions = [...]
RaisingPositions == <<"UTG", "HJ", "CO", "BTN">>

\* Values of Math.random(), in hundredths.
ScenarioDraws == {0, 30, 69, 70, 99}

\* arr[Math.floor(Math.random() * arr.length)]
RandomElementOf(arr, r) == arr[((r * Len(arr)) \div 100) + 1]

\* Every position but the raiser's.
otherPositions(raiserPos) ==
    LET Keep(p) == p # raiserPos
    IN  SelectSeq(Positions, Keep)

\* positions.slice(positions.indexOf(raiserPos) + 1)
callingPositions(raiserPos) ==
    SubSeq(Positions, PositionIndex(raiserPos) + 2, Len(Positions))

\* The scenario of generateScenario's try block.  draw gives the values of
\* Math.random() for the raiser, the hero, the action and the bet size; the
\* bet size is in 1/100000 of a big blind (pot 6.5 bb, times 0.33 + 0.67 r).
generatedScenario(preflopAction, heroHand, board, draw) ==
    LET raiserPos == IF preflopAction = "srp"
                     THEN RandomElementOf(RaisingPositions, draw.raiser)
                     ELSE "UTG"
        heroPos   == IF preflopAction = "srp"
                     THEN RandomElementOf(callingPositions(raiserPos), draw.hero)
                     ELSE "BB"
        isHeroIP  == PositionIndex(heroPos) > PositionIndex(raiserPos)
        action    == IF isHeroIP
                     THEN IF draw.action < 70 THEN "facing_bet" ELSE "check_to_hero"
                     ELSE "open_action"
        betSize   == IF action = "facing_bet"
                     THEN Pot * (3300 + 67 * draw.bet)
                     ELSE 0
    IN  [heroHand |-> heroHand, board |-> board,
         raiserPos |-> raiserPos, heroPos |-> heroPos,
         gameState |->
            [heroHand |-> heroHand, board |-> board, pot |-> Pot,
             stack |-> 1000, position |-> heroPos,
             villainPosition |-> raiserPos, street |-> "flop",
             isHeroIP |-> isHeroIP, action |-> action, betSize |-> betSize,
             preflopAction |-> preflopAction]]

\* The scenario of generateScenario's catch block.
fallbackScenario ==
    LET heroHand == <<Card("A", "s"), Card("K", "h")>>
        board    == <<Card("K", "d"), Card("9", "s"), Card("4", "c")>>
    IN  [heroHand |-> heroHand, board |-> board,
         raiserPos |-> "UTG", heroPos |-> "BB",
         gameState |->
            [heroHand |-> heroHand, board |-> board, pot |-> Pot,
             stack |-> 1000, position |-> "BB", villainPosition |-> "UTG",
             street |-> "flop", isHeroIP |-> FALSE, action |-> "open_action",
             betSize |-> 0, preflopAction |-> "srp"]]

\* dealNewHand is about to call generateScenario.
InitScenario ==
    /\ pc = "generating"
    /\ currentHand = Null /\ currentGTOStrategy = Null
    /\ random = Nil
    /\ solver = Nil /\ repeatGTOStrategy = Nil
    /\ analyzerInput = Nil /\ analyzerResult = Nil
    /\ session = Nil /\ timers = 0 /\ screen = Nil
    /\ gtoStrategy = Nil /\ playerAction = Nil /\ grading = Nil
    /\ cards = Nil /\ evaluation = Nil /\ other = Nil
    /\ otherEvaluation = Nil /\ reorders = 0 /\ outcome = Nil

\* generateScenario() returns from its try block; this.currentHand = scenario.
GenerateScenario ==
    /\ pc = "generating"
    /\ \E preflopAction \in {"srp", "3bet"}, heroHand \in HeroHands, board \in Flops,
          draw \in [raiser : ScenarioDraws, hero : ScenarioDraws,
                    action : ScenarioDraws, bet : ScenarioDraws] :
          /\ Range(heroHand) \cap Range(board) = {}
          /\ currentHand' = generatedScenario(preflopAction, heroHand, board, draw)
    /\ pc' = "generated"
    /\ UNCHANGED <<currentGTOStrategy, random, solver, repeatGTOStrategy>>
    /\ UNCHANGED <<graderVars, handVars, appVars>>

\* A call inside the try block throws; generateScenario returns the scenario
\* of its catch block.
GenerateFallback ==
    /\ pc = "generating"
    /\ currentHand' = fallbackScenario
    /\ pc' = "caught"
    /\ UNCHANGED <<currentGTOStrategy, random, solver, repeatGTOStrategy>>
    /\ UNCHANGED <<graderVars, handVars, appVars>>

NextScenario == GenerateScenario \/ GenerateFallback

SpecScenario == InitScenario /\ [][NextScenario]_vars

\* ----------------------------------------------- claims on the evaluator

RanksOf(arr) == {rankValues[arr[i].rank] : i \in 1..Len(arr)}

\* A five-card straight of mixed suits, by its ranks: the wheel, or five
\* consecutive ranks up to top.
WheelHand(arr) == RanksOf(arr) = {14, 2, 3, 4, 5} /\ Cardinality(SuitsOfCards(arr)) > 1
StraightTo(arr, top) ==
    RanksOf(arr) = (top - 4)..top /\ Cardinality(SuitsOfCards(arr)) > 1

\* C8: the ace-low wheel (A,2,3,4,5 of mixed suits) is classified as a
\* Straight (rank 4) whose comparison value is that of a 5-high straight: it
\* compares strictly below a 6-high straight and is not equal to or above
\* any higher straight.
C8_WheelIsFiveHigh ==
    pc = "shown" /\ WheelHand(cards) =>
        /\ evaluation.rank = 4
        /\ evaluation.value = 5
        /\ \A top \in 6..14 : StraightTo(other, top) => outcome = "loss"

\* The tiebreak sequence of poker hand ranking: the ranks evaluateFiveCards
\* lists as kickers, except that the ace of a wheel plays low.
PokerTiebreak(ev) ==
    IF ev.rank \in {4, 8} /\ ev.kickers = <<14, 5, 4, 3, 2>>
    THEN <<5, 4, 3, 2, 1>>
    ELSE ev.kickers

\* s is lexicographically higher than t (sequences of the same length).
LexHigher(s, t) ==
    \E k \in 1..Len(s) : /\ \A i \in 1..(k - 1) : s[i] = t[i]
                         /\ s[k] > t[k]

\* C9: comparing the evaluateHand results of two 5-card hands by (rank,
\* value) agrees with poker hand ranking: the results compare equal only if
\* the hands have the same category and the same full tiebreak sequence, and
\* otherwise the hand with the higher category, or the lexicographically
\* higher tiebreak sequence, compares greater.
C9_OrderAgreesWithPoker ==
    pc = "shown" =>
        LET a == evaluation
            b == otherEvaluation
        IN  /\ outcome = "tie" <=>
                 (a.rank = b.rank /\ PokerTiebreak(a) = PokerTiebreak(b))
            /\ outcome = "win" <=>
                 \/ a.rank > b.rank
                 \/ a.rank = b.rank /\ LexHigher(PokerTiebreak(a), PokerTiebreak(b))

\* C10: for every set of 5 to 7 distinct cards, the (rank, value) returned
\* by evaluateHand is the same for every ordering of the input array.
C10_OrderIndependent ==
    pc = "evaluated" => /\ evaluation.rank = otherEvaluation.rank
                        /\ evaluation.value = otherEvaluation.value

\* Six cards whose best hand is a flush have been evaluated again after
\* two swaps that changed the array.
C10_Witness ==
    /\ pc = "evaluated"
    /\ Len(cards) = 6
    /\ reorders = 2
    /\ cards # other
    /\ evaluation.rank = 5

\* The number of 5-element subsets of n elements, for n in 5..7.
Choose5(n) == CASE n = 5 -> 1 [] n = 6 -> 6 [] n = 7 -> 21

\* combos lists every 5-card subset of arr exactly once, and ev is the
\* greatest of their values under (rank, then value).
BestOfAllSubsets(arr, combos, ev) ==
    /\ Len(combos) = Choose5(Len(arr))
    /\ \A S \in SUBSET Range(arr) :
          Cardinality(S) = 5 =>
              Cardinality({k \in 1..Len(combos) : Range(combos[k]) = S}) = 1
    /\ \E k \in 1..Len(combos) :
          /\ evaluateFiveCards(combos[k]).rank = ev.rank
          /\ evaluateFiveCards(combos[k]).value = ev.value
    /\ \A k \in 1..Len(combos) :
          /\ evaluateFiveCards(combos[k]).rank <= ev.rank
          /\ evaluateFiveCards(combos[k]).rank = ev.rank
                 => evaluateFiveCards(combos[k]).value <= ev.value

\* C11: for 5 to 7 cards getCombinations enumerates every 5-card subset
\* exactly once and evaluateHand returns the maximum of evaluateFiveCards
\* over them under (rank, then value): no subset evaluates strictly higher.
C11_BestOfAllSubsets ==
    (pc = "evaluated" /\ Len(cards) >= 5)
        => BestOfAllSubsets(cards, getCombinations(cards, 5), evaluation)

\* Seven cards, reordered, whose 21 subsets hold flushes below the best
\* hand, the straight flush.
C11_Witness ==
    /\ pc = "evaluated"
    /\ Len(cards) = 7
    /\ reorders = 1
    /\ Len(getCombinations(cards, 5)) = 21
    /\ evaluation.rank = 8

\* C12: evaluateHand on fewer than 5 cards returns the degenerate value of
\* the lowest category (rank 0, value 0, High Card) and does not raise.
C12_ShortHandIsDegenerate ==
    (pc = "evaluated" /\ Len(cards) < 5)
        => evaluation = [rank |-> 0, value |-> 0, description |-> "High Card"]

\* Four cards have been evaluated, also after a swap.
C12_Witness ==
    /\ pc = "evaluated"
    /\ Len(cards) = 4
    /\ reorders = 1
    /\ evaluation.rank = 0
    /\ evaluation.description = "High Card"

\* ------------------------------------------------ claims on the analyzers

AnalyzedBy(fn) == pc = "analyzed" /\ analyzerResult.fn = fn

\* The input is one the error taxonomy calls malformed: a card that is both
\* in the hole cards and on the board, a board of fewer than 3 cards for
\* the board analyzer, a board of 5 cards for the draw analyzer.
Malformed(input, fn) ==
    \/ Range(input.heroHand) \cap Range(input.board) # {}
    \/ fn = "analyzeAdvancedBoardTexture" /\ Len(input.board) < 3
    \/ fn = "analyzeDraws" /\ Len(input.board) = 5

\* C13: malformed input to the core functions (a wrong card count, duplicate
\* cards) is rejected with a validation error, never turned into a
\* normal-looking result.
C13_MalformedIsRejected ==
    (pc = "analyzed" /\ Malformed(analyzerInput, analyzerResult.fn))
        => analyzerResult.threw

\* C14: for every board of 3 to 5 cards the wetness analyzeAdvancedBoardTexture
\* returns lies in [0, 1].
C14_WetnessInUnitInterval ==
    (AnalyzedBy("analyzeAdvancedBoardTexture") /\ Len(analyzerInput.board) >= 3)
        => analyzerResult.value.wetness \in 0..100

\* A-K-Q of spades, whose contributions add up to 1.12, was analyzed.
C14_Witness ==
    /\ AnalyzedBy("analyzeAdvancedBoardTexture")
    /\ analyzerInput.board = <<Card("A", "s"), Card("K", "s"), Card("Q", "s")>>
    /\ analyzerResult.value.flushDraw /\ analyzerResult.value.broadway
    /\ analyzerResult.value.wetness = 100

\* C15: a board with a repeated rank is paired whatever its wetness; any
\* other board is wet when wetness >= 0.7, dry when wetness <= 0.35, medium
\* otherwise; K-diamond 7-spade 2-club is dry, J-spade T-spade 8-heart wet.
C15_TextureClasses ==
    (AnalyzedBy("analyzeAdvancedBoardTexture") /\ Len(analyzerInput.board) >= 3)
        => LET board   == analyzerInput.board
               texture == analyzerResult.value
           IN  /\ Cardinality(RanksOf(board)) < Len(board) => texture.type = "paired"
               /\ Cardinality(RanksOf(board)) = Len(board) =>
                     /\ WetAtLeast(texture, 70) => texture.type = "wet"
                     /\ WetAtMost(texture, 35) => texture.type = "dry"
                     /\ (~WetAtLeast(texture, 70) /\ ~WetAtMost(texture, 35))
                            => texture.type = "medium"
               /\ board = <<Card("K", "d"), Card("7", "s"), Card("2", "c")>>
                     => texture.type = "dry"
               /\ board = <<Card("J", "s"), Card("T", "s"), Card("8", "h")>>
                     => texture.type = "wet"

\* A paired board whose wetness alone would make it wet was analyzed.
C15_Witness ==
    /\ AnalyzedBy("analyzeAdvancedBoardTexture")
    /\ Len(analyzerInput.board) >= 3
    /\ Cardinality(RanksOf(analyzerInput.board)) < Len(analyzerInput.board)
    /\ analyzerResult.value.wetness >= 70
    /\ analyzerResult.value.type = "paired"

\* C16: for every board of 3 to 5 cards at most one of the flags monochrome,
\* twoTone and rainbow is true.
C16_SuitFlagsExclusive ==
    (AnalyzedBy("analyzeAdvancedBoardTexture") /\ Len(analyzerInput.board) >= 3)
        => LET texture == analyzerResult.value
           IN  /\ ~(texture.monochrome /\ texture.twoTone)
               /\ ~(texture.monochrome /\ texture.rainbow)
               /\ ~(texture.twoTone /\ texture.rainbow)

\* C17: the equity calculateAccurateEquity returns lies in [0.05, 0.95],
\* also for a texture whose type has no entry in the equity tables.
C17_EquityClamped ==
    AnalyzedBy("calculateAccurateEquity")
        => analyzerResult.value.equity \in 500..9500

\* Four deuces with an ace kicker (base equity 1.05) were clamped to 0.95.
C17_Witness ==
    /\ AnalyzedBy("calculateAccurateEquity")
    /\ analyzerInput.heroHand = <<Card("A", "h"), Card("2", "c")>>
    /\ analyzerInput.board = <<Card("2", "s"), Card("2", "h"), Card("2", "d")>>
    /\ analyzerResult.value.equity = 9500

\* The wetness in hundredths that the flags of a returned texture add up to
\* when the high-card contribution is applied as highCardBonus says.
WetnessOfFlags(texture, highCardBonus) ==
    Max2(0, Min2(100,
        40 + (IF texture.flushDraw THEN 20 ELSE 0)
           + (IF texture.connected THEN 18 ELSE 0)
           + (IF texture.doubleConnected THEN 12 ELSE 0)
           - (IF texture.paired THEN 10 ELSE 0)
           - (IF texture.trips THEN 15 ELSE 0)
           + (IF highCardBonus THEN 10 ELSE 0)
           + (IF texture.broadway THEN 12 ELSE 0)
           - (IF texture.lowBoard /\ ~texture.connected THEN 20 ELSE 0)
           - (IF texture.rainbow /\ texture.maxGap > 4 THEN 18 ELSE 0)))

JackOrHigher(board) ==
    Cardinality({i \in 1..Len(board) : rankValues[board[i].rank] >= 11})

\* C21: the high-card contribution of +0.10 to the wetness is applied exactly
\* when two or more board cards have rank Jack or higher; a Ten does not
\* count towards it.
C21_HighCardsAreJackOrHigher ==
    (AnalyzedBy("analyzeAdvancedBoardTexture") /\ Len(analyzerInput.board) >= 3)
        => analyzerResult.value.wetness =
              WetnessOfFlags(analyzerResult.value,
                             JackOrHigher(analyzerInput.board) >= 2)

\* The ranks of hole cards and board.
AllRanks(input) == RanksOf(input.heroHand) \cup RanksOf(input.board)

\* Four ranks next to one another in the descending list of the distinct
\* ranks, from top down to bottom.
Window(ranks, top, bottom) ==
    /\ top \in ranks /\ bottom \in ranks
    /\ Cardinality({r \in ranks : bottom <= r /\ r <= top}) = 4

\* C22: analyzeDraws sets straightDraw exactly when some window of 4
\* consecutive entries of the descending distinct ranks of hole cards plus
\* board has span 3, and gutshot exactly when some such window has span 4.
C22_WindowsOfFourRanks ==
    AnalyzedBy("analyzeDraws")
        => LET ranks == AllRanks(analyzerInput)
               draws == analyzerResult.value
           IN  /\ draws.straightDraw <=> \E top \in ranks : Window(ranks, top, top - 3)
               /\ draws.gutshot <=> \E top \in ranks : Window(ranks, top, top - 4)

\* Queens in the hole on K-J-T-K: the run K-Q-J-T is there once the repeated
\* ranks are dropped; no window has span 4.
C22_Witness ==
    /\ AnalyzedBy("analyzeDraws")
    /\ analyzerInput.heroHand = <<Card("Q", "h"), Card("Q", "d")>>
    /\ analyzerInput.board = <<Card("K", "s"), Card("J", "s"),
                               Card("T", "s"), Card("K", "d")>>
    /\ analyzerResult.value.straightDraw
    /\ ~analyzerResult.value.gutshot

\* The equity of the twoPairPlus branch for a best hand of the given rank.
TwoPairPlusEquity(handEval, boardTexture) ==
    adjustEquity(MadeHand("twoPairPlus", 80 + (handEval.rank - 2) * 5),
                 boardTexture)

TwoPairPlusOrWeaker(handEval, equity, boardTexture) ==
    handEval.rank >= 2 => equity = TwoPairPlusEquity(handEval, boardTexture)

\* C27: whenever the best five-card hand of hole cards plus board is two
\* pair or better, calculateAccurateEquity takes the twoPairPlus branch, with
\* base equity 0.80 + 0.05 * (rank - 2), and not the topPair, underpair or
\* smallPair branch.
C27_TwoPairPlusBranch ==
    (AnalyzedBy("calculateAccurateEquity") /\ Len(analyzerInput.board) >= 3
        /\ ~Malformed(analyzerInput, "calculateAccurateEquity"))
        => TwoPairPlusOrWeaker(
               evaluateHand(analyzerInput.heroHand \o analyzerInput.board),
               analyzerResult.value.equity,
               analyzeAdvancedBoardTexture(analyzerInput.board))

\* ------------------------------------------------- claims on the solver

Solved == pc \in {"solved", "answered"}

\* The table getGTOStrategy built for currentHand before normalizing it.
RawOfCurrent ==
    rawStrategy(currentHand, currentGTOStrategy.metrics,
                currentGTOStrategy.rangeAdvantage, random)

NormalizedFrom(strategy, raw) ==
    /\ strategy.den > 0
    /\ \A i \in 1..Len(strategy.entries) : strategy.entries[i].f >= 0
    /\ SumFreq(raw.entries) # 0 => SumFreq(strategy.entries) = strategy.den
    /\ SumFreq(raw.entries) = 0 => strategy = raw

\* C1: the strategy getGTOStrategy returns holds only non-negative
\* probabilities, and they sum to 1 whenever the raw weights have a non-zero
\* total; a table of total 0 is returned unchanged.
C1_StrategyNormalized ==
    Solved => NormalizedFrom(currentGTOStrategy.strategy, RawOfCurrent)

\* A raw table of total 0.95 (fold 0.75, call 0.20) was normalized.
C1_Witness ==
    /\ pc = "solved"
    /\ currentHand.action = "facing_bet"
    /\ FreqOf(currentGTOStrategy.strategy, "fold") = 75
    /\ FreqOf(currentGTOStrategy.strategy, "call") = 20
    /\ currentGTOStrategy.strategy.den = 95

RaiseKeys == {"raise_0.33", "raise_0.5", "raise_0.67", "raise_1.0", "raise_1.5"}

\* The total weight a table gives to the keys in set S.
RECURSIVE WeightIn(_, _)
WeightIn(entries, S) ==
    IF entries = <<>> THEN 0
    ELSE (IF Head(entries).a \in S THEN Head(entries).f ELSE 0)
         + WeightIn(Tail(entries), S)

AceKingOnKingHigh ==
    /\ currentHand.heroHand = <<Card("A", "s"), Card("K", "h")>>
    /\ currentHand.board = <<Card("K", "d"), Card("9", "s"), Card("4", "c")>>
    /\ currentHand.action = "facing_bet"
    /\ currentHand.betSize = 40
    /\ currentHand.pot = 65
    /\ currentHand.isHeroIP

\* C6: A-spade K-heart on K-diamond 9-spade 4-club, facing a bet of 4 into
\* 6.5 in position: the hand is topPair on a dry board with base equity
\* 0.68, the raise sizes carry the highest weight, and raise_0.67 is graded
\* best with evLoss 0.
C6_TopPairRaisesBest ==
    (Solved /\ AceKingOnKingHigh) =>
        LET metrics  == currentGTOStrategy.metrics
            strategy == currentGTOStrategy.strategy
        IN  /\ metrics.boardTexture.type = "dry"
            /\ classifyMadeHand(currentHand.heroHand, currentHand.board,
                                metrics.boardTexture).category = "topPair"
            /\ EquityTable(topPairEquity, metrics.boardTexture.type, 63) = 68
            /\ \A i \in 1..Len(strategy.entries) :
                  strategy.entries[i].a \notin RaiseKeys
                      => strategy.entries[i].f < WeightIn(strategy.entries, RaiseKeys)
            /\ (pc = "answered" /\ playerAction = "raise_0.67")
                   => (grading.category = "best" /\ grading.evLoss = 0)

SevenDeuceOnBroadway ==
    /\ currentHand.heroHand = <<Card("7", "s"), Card("2", "d")>>
    /\ currentHand.board = <<Card("A", "h"), Card("Q", "d"), Card("T", "h")>>
    /\ currentHand.action = "open_action"
    /\ ~currentHand.isHeroIP

\* C7: 7-spade 2-diamond on A-heart Q-diamond T-heart, open action out of
\* position: the board is wet, the hand weak with no strong blocker, check
\* has the largest weight whatever the bluff coin flip gave, and bet_1.0 is
\* graded inaccuracy, wrong or blunder.
C7_WeakHandChecksWetBoard ==
    (Solved /\ SevenDeuceOnBroadway) =>
        LET metrics  == currentGTOStrategy.metrics
            strategy == currentGTOStrategy.strategy
        IN  /\ metrics.boardTexture.type = "wet"
            /\ metrics.handCategory = "weak"
            /\ ~metrics.blockers.strongBlocker
            /\ random \in RandomDraws
            /\ \A i \in 1..Len(strategy.entries) :
                  strategy.entries[i].a # "check"
                      => strategy.entries[i].f < FreqOf(strategy, "check")
            /\ (pc = "answered" /\ playerAction = "bet_1.0")
                   => grading.category \in {"inaccuracy", "wrong", "blunder"}

\* bet_1.0 was graded after the coin flip said to bluff (check 0.55).
C7_Witness ==
    /\ pc = "answered"
    /\ SevenDeuceOnBroadway
    /\ random = 2
    /\ FreqOf(gtoStrategy, "check") = 55
    /\ playerAction = "bet_1.0"
    /\ grading.category = "blunder"

\* C18: two calls of getGTOStrategy with the same gameState return the same
\* strategy in every context and branch but one: the open_action branch for
\* a hand that is neither medium or better nor a strong draw, the only one
\* whose result depends on a random draw.
C18_DeterministicButOneBranch ==
    (pc = "resolved"
        /\ ~ReadsRandom(currentHand.action, currentGTOStrategy.metrics))
        => repeatGTOStrategy = currentGTOStrategy

\* The weak open-action branch was solved twice and the two draws of
\* Math.random() gave two strategies.
C18_Witness ==
    /\ pc = "resolved"
    /\ ReadsRandom(currentHand.action, currentGTOStrategy.metrics)
    /\ repeatGTOStrategy.metrics = currentGTOStrategy.metrics
    /\ repeatGTOStrategy.strategy # currentGTOStrategy.strategy

\* C19: once the first initialize() has bound the solver's engine and
\* ranges, every later call leaves the solver's fields (engine, ranges,
\* config, equityTables), the gameState with its card arrays and the
\* strategy object handed to evaluateAction unchanged.
C19_NoCrossCallState ==
    [][solver.engine # Null =>
          /\ solver' = solver
          /\ currentHand' = currentHand
          /\ pc # "scenario" => currentGTOStrategy' = currentGTOStrategy]_vars

\* The solver was called twice; both references are bound and the fields
\* the constructor set are as it set them.
C19_Witness ==
    /\ pc = "resolved"
    /\ solver = [AdvancedGTOSolver EXCEPT !.engine = "pokerEngine",
                                          !.ranges = "preflopRanges"]

\* ------------------------------------------------ claims on the session

\* C20: the session history keeps only the last 20 graded hands, newest
\* first: its length is min(20, session.moves), and a graded action puts the
\* hand it graded at history[0], before the items that were there, of which
\* the twentieth is dropped.
C20_HistoryKeepsLastTwenty ==
    [][/\ Len(session'.history) = Min2(HistoryCap, session'.moves)
       /\ session'.moves = session.moves + 1 =>
             /\ session'.history[1].handNum = session.hands
             /\ session'.history[1].heroHand = currentHand.heroHand
             /\ session'.history[1].board = currentHand.board
             /\ Tail(session'.history) =
                    SubSeq(session.history, 1,
                           Min2(HistoryCap - 1, Len(session.history)))]_vars

\* More than 20 actions were graded in a session and the history holds 20
\* of them, of different hands.
C20_Witness ==
    /\ session.moves > HistoryCap
    /\ Len(session.history) = HistoryCap
    /\ session.history[1].handNum > session.history[HistoryCap].handNum

\* The weak branch of the open-action strategy was reached for currentHand.
WeakOpenSolved ==
    /\ pc \in {"solved", "resolved", "answered"}
    /\ ReadsRandom(currentHand.action, currentGTOStrategy.metrics)

\* The c-bet frequency of currentHand's band, in hundredths.
CBetFreqOfCurrent ==
    IF currentHand.isHeroIP
    THEN cBetFrequencies.IP[currentGTOStrategy.metrics.boardTexture.type]
    ELSE cBetFrequencies.OOP[currentGTOStrategy.metrics.boardTexture.type]

\* The strategy is the one of the bluff branch: it bets two thirds of the
\* pot, which the other weak branch never does.
BluffTaken == FreqOf(currentGTOStrategy.strategy, "bet_0.67") > 0

\* The second test of the bluff branch.
BluffAllowed ==
    \/ WetAbove(currentGTOStrategy.metrics.boardTexture, 60)
    \/ currentGTOStrategy.rangeAdvantage.value > 0

\* C23 as stated: the coin flip compares the random draw with
\* cBetFreq - 0.5, so the bluff branch is taken only on a draw below it, and
\* never in a band where that is not positive.
C23_BluffBelowHalfOff ==
    (WeakOpenSolved /\ BluffTaken) => random < CBetFreqOfCurrent - 50

\* C23 as amended: the coin flip compares the random draw with
\* cBetFreq - 0.45, which is positive in every band, and the bluff branch is
\* taken exactly on a draw below it where the board is wetter than 0.6 or
\* the range advantage is positive.
C23_BluffBelowThreshold ==
    WeakOpenSolved =>
        /\ \A seat \in DOMAIN cBetFrequencies :
              \A type \in DOMAIN cBetFrequencies[seat] :
                  cBetFrequencies[seat][type] - 45 > 0
        /\ BluffTaken <=> (random < CBetFreqOfCurrent - 45 /\ BluffAllowed)

\* Out of position on a wet board, the band with the lowest c-bet
\* frequency (0.50), a draw of 0.02 took the bluff branch.
C23_Witness ==
    /\ WeakOpenSolved
    /\ ~currentHand.isHeroIP
    /\ CBetFreqOfCurrent = 50
    /\ random = 2
    /\ BluffTaken

\* C24: each dealt hand is graded at most once: whatever the interleaving of
\* button clicks and dealNewHand timers, session.moves <= session.hands and
\* no two graded actions are of the same hand.
C24_EachHandGradedOnce ==
    /\ session.moves <= session.hands
    /\ \A i, j \in 1..Len(session.history) :
          session.history[i].handNum = session.history[j].handNum => i = j

\* C25: a dealNewHand timer pending from before back-to-settings or
\* startTraining does not deal into the new session or under the settings
\* screen: session.hands <= session.moves + 1 in every reachable state.
C25_NoDealAcrossReset ==
    session.hands <= session.moves + 1

Counters(s) ==
    <<s.bestMoves, s.correctMoves, s.inaccuracies, s.wrongMoves, s.blunders>>

CounterSum(s) ==
    s.bestMoves + s.correctMoves + s.inaccuracies + s.wrongMoves + s.blunders

\* C26: the five category counters add up to session.moves, a graded action
\* adds one to exactly one of them, and session.score stays within 0..100.
C26_CountersAccountForMoves ==
    [][/\ CounterSum(session') = session'.moves
       /\ session'.score \in 0..100
       /\ session'.moves = session.moves + 1 =>
             \E k \in 1..5 :
                 \A i \in 1..5 :
                     Counters(session')[i] =
                         Counters(session)[i] + (IF i = k THEN 1 ELSE 0)]_vars

\* Actions of two categories were graded and the score is the rounded mean
\* of their weights, neither 0 nor 100.
C26_Witness ==
    /\ session.moves >= 2
    /\ session.bestMoves >= 1
    /\ session.blunders >= 1
    /\ session.score \in 1..99
    /\ session.score = RoundDiv(100 * session.bestMoves + 80 * session.correctMoves
                                  + 50 * session.inaccuracies + 20 * session.wrongMoves,
                                session.moves)

\* C28: every label a rendered button submits is a key of the strategy
\* table synthesized for the same context, and every context the solver
\* synthesizes a table for has buttons rendered for it.
C28_ButtonsMatchTableKeys ==
    /\ pc = "answered" => HasKey(gtoStrategy, playerAction)
    /\ (pc = "solved" /\ currentGTOStrategy.strategy.entries # <<>>)
          => ActionButtons(currentHand.action) # {}

\* The four values of gameState.action the switch of getGTOStrategy knows.
RecognisedActions == {"facing_bet", "facing_raise", "check_to_hero", "open_action"}

\* The total of the weights the decision table assigned, before normalizing:
\* normalizeStrategy keeps every weight's numerator.
RawTotal(solution) == SumFreq(solution.strategy.entries)

\* C30: in each of the four recognised contexts the raw weights of the table
\* sum to more than zero, with fold > 0 when facing a bet or a raise and
\* check > 0 when checked to or opening; a zero total arises only for an
\* unrecognised action, whose table is empty.
C30_RawTotalsPositive ==
    pc = "solved" =>
        /\ currentHand.action \in {"facing_bet", "facing_raise"}
              => /\ RawTotal(currentGTOStrategy) > 0
                 /\ FreqOf(currentGTOStrategy.strategy, "fold") > 0
        /\ currentHand.action \in {"check_to_hero", "open_action"}
              => /\ RawTotal(currentGTOStrategy) > 0
                 /\ FreqOf(currentGTOStrategy.strategy, "check") > 0
        /\ RawTotal(currentGTOStrategy) = 0
              => /\ currentHand.action \notin RecognisedActions
                 /\ currentGTOStrategy.strategy.entries = <<>>
        /\ currentHand.action \notin RecognisedActions
              => currentGTOStrategy.strategy.entries = <<>>

\* A very strong hand facing a raise still folds a tenth of the time.
C30_Witness ==
    /\ pc = "solved"
    /\ currentHand.action = "facing_raise"
    /\ currentGTOStrategy.metrics.handCategory \in {"nuts", "veryStrong"}
    /\ FreqOf(currentGTOStrategy.strategy, "fold") = 10
    /\ RawTotal(currentGTOStrategy) = 100

\* ----------------------------------------------- claims on the scenarios

Graded == pc \in {"graded", "regraded"} /\ ~grading.threw

\* The largest weight of a table with at least one key.
MaxFreq(strategy) ==
    CHOOSE m \in { strategy.entries[i].f : i \in 1..Len(strategy.entries) } :
        \A i \in 1..Len(strategy.entries) : strategy.entries[i].f <= m

\* The position of key a in the table's enumeration order.
KeyIndex(strategy, a) ==
    CHOOSE i \in 1..Len(strategy.entries) : strategy.entries[i].a = a

\* C2: evaluateAction assigns exactly one category by testing the bands
\* top-down, first match wins, with playerFreq the submitted label's weight
\* (0 if absent) and optimalFreq the maximum weight: best if playerFreq >=
\* optimalFreq - 0.03 or playerFreq >= 0.25, else correct if >= 0.15, else
\* inaccuracy if >= 0.08, else wrong if >= 0.03, else blunder.
C2_CategoryLadder ==
    Graded =>
        LET d == gtoStrategy.den
            p == IF HasKey(gtoStrategy, playerAction)
                 THEN gtoStrategy.entries[KeyIndex(gtoStrategy, playerAction)].f
                 ELSE 0
            o == MaxFreq(gtoStrategy)
        IN  /\ grading.playerFrequency = p
            /\ grading.optimalFrequency = o
            /\ grading.category =
                 CASE 100 * p >= 100 * o - 3 * d \/ 100 * p >= 25 * d -> "best"
                   [] 100 * p < 100 * o - 3 * d /\ 100 * p < 25 * d
                        /\ 100 * p >= 15 * d -> "correct"
                   [] 100 * p < 100 * o - 3 * d /\ 100 * p < 15 * d
                        /\ 100 * p >= 8 * d -> "inaccuracy"
                   [] 100 * p < 100 * o - 3 * d /\ 100 * p < 8 * d
                        /\ 100 * p >= 3 * d -> "wrong"
                   [] 100 * p < 100 * o - 3 * d /\ 100 * p < 3 * d -> "blunder"

\* A submitted action of frequency 0.26 against an optimal frequency of 1.0
\* has been graded best.
C2_Witness ==
    /\ pc = "graded"
    /\ ~grading.threw
    /\ 100 * grading.playerFrequency = 26 * gtoStrategy.den
    /\ grading.optimalFrequency = gtoStrategy.den
    /\ grading.category = "best"

\* C3: for every strategy with at least one action, grading the action that
\* evaluateAction itself reports as optimalAction returns category best
\* with evLoss exactly 0.
C3_OptimalIsBest ==
    pc = "regraded" => /\ ~grading.threw
                       /\ grading.category = "best"
                       /\ grading.evLoss = 0

\* The reported optimal action of a table of two keys has been graded in
\* its turn.
C3_Witness ==
    /\ pc = "regraded"
    /\ Len(gtoStrategy.entries) >= 2
    /\ playerAction = grading.optimalAction
    /\ grading.optimalFrequency > 0
    /\ grading.category = "best"

\* C4: for every strategy whose weights are probabilities in [0,1] and every
\* submitted label, present or absent, the evLoss returned by evaluateAction
\* is non-negative and never exceeds 2.5.
C4_EvLossRange ==
    Graded => /\ grading.evLoss >= 0
              /\ grading.evLoss <= 25000 * grading.den

\* An absent label has been graded a blunder against an optimal frequency of
\* 1.0, the largest loss the ladder produces (1.6).
C4_Witness ==
    /\ pc = "graded"
    /\ ~grading.threw
    /\ ~HasKey(gtoStrategy, playerAction)
    /\ grading.category = "blunder"
    /\ grading.evLoss = 16000 * grading.den

\* C5: the optimalAction reported by evaluateAction is an action of maximum
\* weight, and when several actions share the maximum weight it is the one
\* enumerated first in the table's key order.
C5_OptimalIsFirstMax ==
    Graded =>
        LET es == gtoStrategy.entries
            k  == KeyIndex(gtoStrategy, grading.optimalAction)
        IN  /\ HasKey(gtoStrategy, grading.optimalAction)
            /\ \A i \in 1..Len(es) : es[i].f <= es[k].f
            /\ \A i \in 1..(k - 1) : es[i].f < es[k].f

\* Two keys share the maximum weight of a graded table.
C5_Witness ==
    /\ pc = "graded"
    /\ ~grading.threw
    /\ \E i, j \in 1..Len(gtoStrategy.entries) :
          /\ i < j
          /\ gtoStrategy.entries[i].f = grading.optimalFrequency
          /\ gtoStrategy.entries[j].f = grading.optimalFrequency

=============================================================================
